---- MODULE Spec2Model ----
(***************************************************************************)
(* Federation of a graph store (journals) and a relational store           *)
(* (categories, areas and their journal associations) behind the           *)
(* BasicQueryEngine / FullQueryEngine query surface.                       *)
(*                                                                         *)
(* Values are Python values: every text is a TLA+ string, None (Python     *)
(* None, SQL NULL) and NaN (the pandas filler of an unbound cell) are two  *)
(* reserved strings, NoCol marks a column a DataFrame does not have.       *)
(***************************************************************************)
EXTENDS Integers, Sequences, FiniteSets, TLC

None == "<None>"
NaN == "<NaN>"
NoCol == "<NoCol>"

(***************************************************************************)
(* Bounds of the model: how many upload calls a behaviour makes.           *)
(***************************************************************************)
\* the engine with its registry (Spec)
MaxJournalUploads == 2
MaxCategoryUploads == 2
\* the queries on registered handlers (SpecQueries)
MaxJournalFiles == 1
MaxCategoryFiles == 2
\* the queries while endpoints fail (SpecOutage)
MaxOutageUploads == 1
\* SpecText: the characters of a text argument
MaxArgLen == 2

(***************************************************************************)
(* The universe the inputs are drawn from.                                 *)
(***************************************************************************)
\* handler instances; a handler is identified with the store its dbPathOrUrl names
JournalHandlers == {"J1", "J2"}
CategoryHandlers == {"K1", "K2"}
Issns == {"111", "222"}
Quartiles == {"Q1", "Q2"}
Licences == {"CC BY", "CC0"}
CategoryIds == {"AI", "DB"}
AreaIds == {"CS"}

VARIABLES
    journalQuery,   \* BasicQueryEngine._journalQuery
    categoryQuery,  \* BasicQueryEngine._categoryQuery
    graph,          \* per bibliographic endpoint: the set of triples it holds
    net,            \* per bibliographic endpoint: how its transport answers
    db,             \* per classification file: the four tables
    budget,         \* number of upload calls the behaviour may still make, per kind
    call,           \* the last public operation called, with its arguments
    ret             \* what that operation returned

vars == <<journalQuery, categoryQuery, graph, net, db, budget, call, ret>>

(***************************************************************************)
(* Helpers.                                                                *)
(***************************************************************************)
RECURSIVE SeqOf(_)
\* the elements of a finite set in some fixed order (a backend's row order)
SeqOf(S) == IF S = {} THEN <<>> ELSE LET x == CHOOSE y \in S : TRUE IN <<x>> \o SeqOf(S \ {x})

Range(s) == {s[i] : i \in 1..Len(s)}

RECURSIVE Flatten(_)
Flatten(ss) == IF ss = <<>> THEN <<>> ELSE Head(ss) \o Flatten(Tail(ss))

\* Python truthiness of a str / None / NaN value
Truthy(v) == v # "" /\ v # None /\ v # NoCol

\* list.__contains__ / "x not in list"
InList(x, s) == \E i \in 1..Len(s) : s[i] = x


(***************************************************************************)
(* Text.  A string is spelled as its characters where the code looks       *)
(* inside it (str.lower, CONTAINS, LCASE); any other string is one opaque   *)
(* symbol.                                                                  *)
(***************************************************************************)
UpperAlpha == <<"A", "B", "C", "D", "E", "F", "I", "L", "R", "S", "T", "U">>
LowerAlpha == <<"a", "b", "c", "d", "e", "f", "i", "l", "r", "s", "t", "u">>

Spell(s) ==
    CASE s = "true" -> <<"t", "r", "u", "e">>
      [] s = "TRUE" -> <<"T", "R", "U", "E">>
      [] s = "True" -> <<"T", "r", "u", "e">>
      [] s = "false" -> <<"f", "a", "l", "s", "e">>
      [] s = "FALSE" -> <<"F", "A", "L", "S", "E">>
      [] s = "False" -> <<"F", "a", "l", "s", "e">>
      [] s = "Ai" -> <<"A", "i">>
      [] s = "Db" -> <<"D", "b">>
      [] s = "a" -> <<"a">>
      [] s = "DB" -> <<"D", "B">>
      [] s = "Acta" -> <<"A", "c", "t", "a">>
      [] s = "CT" -> <<"C", "T">>
      [] s = "" -> <<>>
      [] OTHER -> <<s>>

LowerChar(c) ==
    IF \E i \in 1..Len(UpperAlpha) : UpperAlpha[i] = c
    THEN LowerAlpha[CHOOSE i \in 1..Len(UpperAlpha) : UpperAlpha[i] = c]
    ELSE c

\* str.lower() / SPARQL LCASE, on the spelled string
Lower(cs) == [i \in 1..Len(cs) |-> LowerChar(cs[i])]

\* SPARQL CONTAINS(hay, needle)
Contains(hay, needle) ==
    \E i \in 1..(Len(hay) + 1) :
        /\ i + Len(needle) - 1 <= Len(hay)
        /\ SubSeq(hay, i, i + Len(needle) - 1) = needle

(***************************************************************************)
(* JournalUploadHandler: the triples an upload writes to a graph store.    *)
(* A triple is <<subject, predicate, object>>; the subject is the journal  *)
(* identifier of the URI <http://doaj.org/journal/{id}>.                   *)
(***************************************************************************)
BatchSize == 200

BoolLiteral(value) == IF value THEN "true" ELSE "false"

\* the triples of a journal named by its EISSN whenever it has one
JournalTriplesEissnFirst(journal) ==
    LET journal_id == IF Truthy(journal.eissn) THEN journal.eissn ELSE journal.issn_print
    IN  IF ~Truthy(journal_id) THEN {}
        ELSE {<<journal_id, "type", "Journal">>, <<journal_id, "title", journal.title>>,
              <<journal_id, "seal", BoolLiteral(journal.seal)>>,
              <<journal_id, "licence", journal.licence>>,
              <<journal_id, "apc", BoolLiteral(journal.apc)>>}
             \cup (IF Truthy(journal.issn_print) THEN {<<journal_id, "issn", journal.issn_print>>} ELSE {})
             \cup (IF Truthy(journal.eissn) THEN {<<journal_id, "eissn", journal.eissn>>} ELSE {})

\* the triples of one journal dictionary (one pass of the loop body)
JournalTriples(journal) ==
    LET journal_id == IF Truthy(journal.issn_print) THEN journal.issn_print ELSE journal.eissn
    IN  IF ~Truthy(journal_id) THEN {}
        ELSE {<<journal_id, "type", "Journal">>, <<journal_id, "title", journal.title>>}
             \cup (IF Truthy(journal.issn_print) THEN {<<journal_id, "issn", journal.issn_print>>} ELSE {})
             \cup (IF Truthy(journal.eissn) THEN {<<journal_id, "eissn", journal.eissn>>} ELSE {})
             \cup {<<journal_id, "language", journal.languages[i]>> : i \in 1..Len(journal.languages)}
             \cup (IF Truthy(journal.publisher) THEN {<<journal_id, "publisher", journal.publisher>>} ELSE {})
             \cup {<<journal_id, "seal", BoolLiteral(journal.seal)>>,
                   <<journal_id, "licence", journal.licence>>,
                   <<journal_id, "apc", BoolLiteral(journal.apc)>>}

\* the INSERT DATA block of a batch
BuildInsertQuery(journals_data) == UNION {JournalTriples(journals_data[i]) : i \in 1..Len(journals_data)}

RECURSIVE ChunkedFromFullOnly(_, _, _)
\* the batches, were what is left at the end not yielded
ChunkedFromFullOnly(items, size, batch) ==
    LET need == size - Len(batch)
    IN  IF need < 1 \/ Len(items) < need
        THEN <<>>
        ELSE <<batch \o SubSeq(items, 1, need)>>
             \o ChunkedFromFullOnly(SubSeq(items, need + 1, Len(items)), size, <<>>)

RECURSIVE ChunkedFrom(_, _, _)
\* the batches the loop yields from the items left and the batch being
\* filled: the items are appended until the batch has size items, then it is
\* yielded and a new one begun; what is left at the end is yielded if not empty
ChunkedFrom(items, size, batch) ==
    LET need == size - Len(batch)
    IN  IF need < 1 \/ Len(items) < need
        THEN (IF batch \o items # <<>> THEN <<batch \o items>> ELSE <<>>)
        ELSE <<batch \o SubSeq(items, 1, need)>>
             \o ChunkedFrom(SubSeq(items, need + 1, Len(items)), size, <<>>)

Chunked(items, size) == ChunkedFrom(items, size, <<>>)

RECURSIVE UploadBatches(_, _, _, _)
\* the loop over the batches: [store, uploaded, raised]; outcome is how the
\* endpoint answers the POST requests of this call
UploadBatches(batches, store, uploaded, outcome) ==
    IF batches = <<>> THEN [store |-> store, uploaded |-> uploaded, raised |-> FALSE]
    ELSE IF outcome = "refused" THEN [store |-> store, uploaded |-> uploaded, raised |-> TRUE]
    ELSE IF outcome = "http500" THEN UploadBatches(Tail(batches), store, uploaded, outcome)
    ELSE UploadBatches(Tail(batches), store \cup BuildInsertQuery(Head(batches)),
                       uploaded + Len(Head(batches)), outcome)

\* [store, result] of _upload_to_blazegraph
UploadToBlazegraph(journals_data, store, outcome) ==
    IF journals_data = <<>> THEN [store |-> store, result |-> FALSE]
    ELSE LET r == UploadBatches(Chunked(journals_data, BatchSize), store, 0, outcome)
         IN  IF r.raised THEN [store |-> r.store, result |-> FALSE]
             ELSE [store |-> r.store, result |-> (r.uploaded = Len(journals_data))]

(***************************************************************************)
(* CategoryUploadHandler: the four tables of a classification store.       *)
(***************************************************************************)
NoTables == [created |-> FALSE, areas |-> {}, categories |-> {},
             journal_categories |-> {}, journal_areas |-> {}]

\* INSERT OR IGNORE of a row into a table with the key columns 1..n: a row
\* whose key is already there is skipped; a NULL in the key never conflicts,
\* so such a row is stored once more each time, told from its likes by the
\* rowid the table gives it (the number of rows so far plus one, as no row
\* is ever deleted), kept here as a cell after the columns
InsertOrIgnore(table, row, n) ==
    IF \E i \in 1..n : row[i] = None
    THEN table \cup {Append(row, Cardinality(table) + 1)}
    ELSE IF \E old \in table : \A i \in 1..n : old[i] = row[i]
    THEN table ELSE table \cup {row}

RECURSIVE InsertAll(_, _, _)
InsertAll(table, rows, n) ==
    IF rows = <<>> THEN table ELSE InsertAll(InsertOrIgnore(table, Head(rows), n), Tail(rows), n)

\* one pass of the loop of _insert_data
InsertEntry(t, entry) ==
    [created |-> t.created,
     areas |-> InsertAll(t.areas, [i \in 1..Len(entry.areas) |-> <<entry.areas[i]>>], 1),
     categories |-> InsertAll(t.categories,
        [i \in 1..Len(entry.categories) |-> <<entry.categories[i].id, entry.categories[i].quartile>>], 1),
     journal_categories |-> InsertAll(t.journal_categories,
        Flatten([n \in 1..Len(entry.identifiers) |->
            [i \in 1..Len(entry.categories) |->
                <<entry.identifiers[n], entry.categories[i].id, entry.categories[i].quartile>>]]), 2),
     journal_areas |-> InsertAll(t.journal_areas,
        Flatten([n \in 1..Len(entry.identifiers) |->
            [i \in 1..Len(entry.areas) |-> <<entry.identifiers[n], entry.areas[i]>>]]), 2)]

RECURSIVE InsertData(_, _)
InsertData(t, scimago_data) ==
    IF scimago_data = <<>> THEN t ELSE InsertData(InsertEntry(t, Head(scimago_data)), Tail(scimago_data))

\* CREATE TABLE IF NOT EXISTS, four times
CreateTables(t) == [t EXCEPT !.created = TRUE]

UploadToSqlite(t, scimago_data) == InsertData(CreateTables(t), scimago_data)


(***************************************************************************)
(* DataFrames.  A frame is [cols, rows]; a row handed to a mapper is the   *)
(* pandas Series [cols, v].  A cell of a column the frame has but the row  *)
(* does not bind is NaN.                                                   *)
(***************************************************************************)
EmptyDF == [cols |-> {}, rows |-> <<>>]

\* DataFrame.empty
IsEmpty(df) == df.rows = <<>>

\* the Series of DataFrame.iterrows / DataFrame.iloc
Series(df) == [i \in 1..Len(df.rows) |-> [cols |-> df.cols, v |-> df.rows[i]]]

\* Series.get(key, default)
Get(row, key, default) == IF key \in row.cols THEN row.v[key] ELSE default

(***************************************************************************)
(* JournalQueryHandler: the SPARQL queries, evaluated on a set of triples. *)
(***************************************************************************)
SparqlVars == {"journal", "title", "issn", "eissn", "language", "publisher", "seal", "licence", "apc"}

Objects(g, s, p) == {t[3] : t \in {u \in g : u[1] = s /\ u[2] = p}}

\* the values a variable takes for subject s: every object of a required
\* triple pattern, and for an OPTIONAL one with no object, unbound
Bind(g, s, p, required) ==
    IF required \/ Objects(g, s, p) # {} THEN Objects(g, s, p) ELSE {NaN}

\* the solutions of the common graph pattern: ?journal rdf:type doaj:Journal,
\* ?journal doaj:title ?title, the patterns of `required`, the others OPTIONAL
Solutions(g, required) ==
    UNION {
        {[journal |-> s, title |-> t, issn |-> i, eissn |-> e, language |-> l,
          publisher |-> p, seal |-> sl, licence |-> lc, apc |-> a] :
            t \in Bind(g, s, "title", TRUE),
            i \in Bind(g, s, "issn", FALSE),
            e \in Bind(g, s, "eissn", FALSE),
            l \in Bind(g, s, "language", FALSE),
            p \in Bind(g, s, "publisher", "publisher" \in required),
            sl \in Bind(g, s, "seal", FALSE),
            lc \in Bind(g, s, "licence", "licence" \in required),
            a \in Bind(g, s, "apc", FALSE)}
        : s \in {u[1] : u \in {w \in g : w[2] = "type" /\ w[3] = "Journal"}}}

\* the bindings array as a DataFrame: a row's dictionary has a key per bound
\* variable, and pandas fills the others
BindingsFrame(rows) ==
    IF rows = {} THEN EmptyDF
    ELSE [cols |-> {c \in SparqlVars : \E r \in rows : r[c] # NaN}, rows |-> SeqOf(rows)]

\* a transport that hands on the rows of a body it cannot decode
ExecuteSparqlQueryUndecoded(outcome, wellFormed, rows) ==
    CASE outcome = "refused" -> EmptyDF
      [] outcome = "http500" -> EmptyDF
      [] OTHER -> IF wellFormed THEN BindingsFrame(rows) ELSE EmptyDF

\* _execute_sparql_query: outcome is the transport's answer, wellFormed tells
\* whether the endpoint can parse the query text (it answers 400 otherwise)
ExecuteSparqlQuery(outcome, wellFormed, rows) ==
    CASE outcome = "refused" -> EmptyDF
      [] outcome = "http500" -> EmptyDF
      [] outcome = "garbled" -> EmptyDF
      [] OTHER -> IF wellFormed THEN BindingsFrame(rows) ELSE EmptyDF

\* a look-up that matches the EISSN as well as the print ISSN
JournalGetByIdOrEissn(h, entity_id) ==
    ExecuteSparqlQuery(net[h], TRUE,
        {r \in Solutions(graph[h], {}) :
            <<r.journal, "issn", entity_id>> \in graph[h] \/ <<r.journal, "eissn", entity_id>> \in graph[h]})

JournalGetById(h, entity_id) ==
    ExecuteSparqlQuery(net[h], TRUE,
        {r \in Solutions(graph[h], {}) : <<r.journal, "issn", entity_id>> \in graph[h]})

JournalGetAllJournals(h) == ExecuteSparqlQuery(net[h], TRUE, Solutions(graph[h], {}))

JournalGetJournalsWithTitle(h, partialTitle) ==
    ExecuteSparqlQuery(net[h], TRUE,
        {r \in Solutions(graph[h], {}) : Contains(Lower(Spell(r.title)), Lower(Spell(partialTitle)))})

JournalGetJournalsPublishedBy(h, partialName) ==
    ExecuteSparqlQuery(net[h], TRUE,
        {r \in Solutions(graph[h], {"publisher"}) :
            Contains(Lower(Spell(r.publisher)), Lower(Spell(partialName)))})

\* FILTER (?licence = "a" || ?licence = "b"); with no licence the text is
\* FILTER (), which is no SPARQL
JournalGetJournalsWithLicense(h, licenses) ==
    ExecuteSparqlQuery(net[h], licenses # {},
        {r \in Solutions(graph[h], {"licence"}) : r.licence \in licenses})

JournalGetJournalsWithAPC(h) ==
    ExecuteSparqlQuery(net[h], TRUE,
        {r \in Solutions(graph[h], {}) : <<r.journal, "apc", "true">> \in graph[h]})

JournalGetJournalsWithDOAJSeal(h) ==
    ExecuteSparqlQuery(net[h], TRUE,
        {r \in Solutions(graph[h], {}) : <<r.journal, "seal", "true">> \in graph[h]})

(***************************************************************************)
(* CategoryQueryHandler: the SQL queries.  A query on a file without the   *)
(* tables raises inside the handler, which returns pd.DataFrame().         *)
(***************************************************************************)
CategoryRows(t) == {[id |-> c[1], quartile |-> c[2]] : c \in t.categories}
AreaRows(t) == {[id |-> a[1]] : a \in t.areas}

SqlFrame(cols, rows) == [cols |-> cols, rows |-> SeqOf(rows)]

\* a look-up that asks the areas before the categories
CategoryGetByIdAreasFirst(h, entity_id) ==
    IF ~db[h].created THEN EmptyDF
    ELSE LET category_df == SqlFrame({"id", "quartile"},
                                {r \in CategoryRows(db[h]) : r.id = entity_id /\ entity_id # None})
             area_df == SqlFrame({"id"}, {r \in AreaRows(db[h]) : r.id = entity_id /\ entity_id # None})
         IN  IF ~IsEmpty(area_df) THEN area_df ELSE category_df

CategoryGetById(h, entity_id) ==
    IF ~db[h].created THEN EmptyDF
    ELSE LET category_df == SqlFrame({"id", "quartile"},
                                {r \in CategoryRows(db[h]) : r.id = entity_id /\ entity_id # None})
             area_df == SqlFrame({"id"}, {r \in AreaRows(db[h]) : r.id = entity_id /\ entity_id # None})
         IN  IF ~IsEmpty(category_df) THEN category_df ELSE area_df

CategoryGetAllCategories(h) ==
    IF ~db[h].created THEN EmptyDF ELSE SqlFrame({"id", "quartile"}, CategoryRows(db[h]))

CategoryGetAllAreas(h) ==
    IF ~db[h].created THEN EmptyDF ELSE SqlFrame({"id"}, AreaRows(db[h]))

\* the quartile filter applied to an empty set as to any other
CategoryGetCategoriesWithQuartileAlwaysFiltered(h, quartiles) ==
    IF ~db[h].created THEN EmptyDF
    ELSE SqlFrame({"id", "quartile"}, {r \in CategoryRows(db[h]) : r.quartile \in quartiles})

CategoryGetCategoriesWithQuartile(h, quartiles) ==
    IF ~db[h].created THEN EmptyDF
    ELSE IF quartiles = {} THEN SqlFrame({"id", "quartile"}, CategoryRows(db[h]))
    ELSE SqlFrame({"id", "quartile"}, {r \in CategoryRows(db[h]) : r.quartile \in quartiles})

\* the join without its condition on the ISSN
CategoryGetCategoriesAssignedToAreasAnyIssn(h, area_ids) ==
    IF ~db[h].created THEN EmptyDF
    ELSE IF area_ids = {} THEN SqlFrame({"id", "quartile"}, CategoryRows(db[h]))
    ELSE SqlFrame({"id", "quartile"},
            {r \in CategoryRows(db[h]) :
                \E jc \in db[h].journal_categories, ja \in db[h].journal_areas :
                    /\ r.id = jc[2] /\ r.id # None
                    /\ ja[2] \in area_ids})

CategoryGetCategoriesAssignedToAreas(h, area_ids) ==
    IF ~db[h].created THEN EmptyDF
    ELSE IF area_ids = {} THEN SqlFrame({"id", "quartile"}, CategoryRows(db[h]))
    ELSE SqlFrame({"id", "quartile"},
            {r \in CategoryRows(db[h]) :
                \E jc \in db[h].journal_categories, ja \in db[h].journal_areas :
                    /\ r.id = jc[2] /\ r.id # None
                    /\ jc[1] = ja[1] /\ jc[1] # None
                    /\ ja[2] \in area_ids})

CategoryGetAreasAssignedToCategories(h, category_ids) ==
    IF ~db[h].created THEN EmptyDF
    ELSE IF category_ids = {} THEN SqlFrame({"id"}, AreaRows(db[h]))
    ELSE SqlFrame({"id"},
            {r \in AreaRows(db[h]) :
                \E ja \in db[h].journal_areas, jc \in db[h].journal_categories :
                    /\ r.id = ja[2] /\ r.id # None
                    /\ ja[1] = jc[1] /\ ja[1] # None
                    /\ jc[2] \in category_ids})


(***************************************************************************)
(* Entities (models.py) and the row-to-entity mappers.                     *)
(***************************************************************************)
NoEntity == [kind |-> "None"]

\* IdentifiableEntity.setId
SetId(entity_id) == IF Truthy(entity_id) THEN <<entity_id>> ELSE <<>>

\* how the mapper reads a boolean cell: a str is compared, lower-cased, with
\* 'true'; any other value (the float NaN) goes through bool()
ReadBool(value) == IF value = NaN THEN TRUE ELSE Lower(Spell(value)) = Spell("true")

DataframeToJournal(row) ==
    LET first == Get(row, "issn", "")
        issn == IF Truthy(first) THEN first ELSE Get(row, "eissn", "")
    IN  [kind |-> "Journal",
         ids |-> IF Truthy(issn) THEN SetId(issn) ELSE <<>>,
         title |-> Get(row, "title", ""),
         languages |-> IF "language" \in row.cols /\ Truthy(row.v["language"])
                       THEN <<row.v["language"]>> ELSE <<>>,
         publisher |-> Get(row, "publisher", None),
         seal |-> ReadBool(Get(row, "seal", "false")),
         licence |-> Get(row, "licence", ""),
         apc |-> ReadBool(Get(row, "apc", "false")),
         categories |-> <<>>,
         areas |-> <<>>]

DataframeToCategory(row) ==
    [kind |-> "Category", ids |-> SetId(Get(row, "id", "")), quartile |-> Get(row, "quartile", None)]

DataframeToArea(row) == [kind |-> "Area", ids |-> SetId(Get(row, "id", ""))]

\* one Journal per journal of the frame instead of one per row
JournalsOnePerJournal(df) ==
    LET all == {DataframeToJournal(Series(df)[i]) : i \in 1..Len(df.rows)}
    IN  SeqOf({CHOOSE k \in all : k.ids = j.ids : j \in all})

Journals(df) == [i \in 1..Len(df.rows) |-> DataframeToJournal(Series(df)[i])]
Categories(df) == [i \in 1..Len(df.rows) |-> DataframeToCategory(Series(df)[i])]
Areas(df) == [i \in 1..Len(df.rows) |-> DataframeToArea(Series(df)[i])]

(***************************************************************************)
(* BasicQueryEngine.  An operation's body yields [raised, val, log]: log   *)
(* is the sequence of <<handler, method>> calls it made on its handlers,   *)
(* raised tells that an exception left the body.                           *)
(***************************************************************************)
JournalQueryHandlerMethods ==
    {"getById", "getAllJournals", "getJournalsWithTitle", "getJournalsPublishedBy",
     "getJournalsWithLicense", "getJournalsWithAPC", "getJournalsWithDOAJSeal"}

\* handler.<method>(arg) on a JournalQueryHandler: [raised, df]; a name the
\* class does not define raises AttributeError
CallJournalHandler(h, method, arg) ==
    IF method \notin JournalQueryHandlerMethods THEN [raised |-> TRUE, df |-> EmptyDF]
    ELSE [raised |-> FALSE,
          df |-> CASE method = "getById" -> JournalGetById(h, arg)
                   [] method = "getAllJournals" -> JournalGetAllJournals(h)
                   [] method = "getJournalsWithTitle" -> JournalGetJournalsWithTitle(h, arg)
                   [] method = "getJournalsPublishedBy" -> JournalGetJournalsPublishedBy(h, arg)
                   [] method = "getJournalsWithLicense" -> JournalGetJournalsWithLicense(h, arg)
                   [] method = "getJournalsWithAPC" -> JournalGetJournalsWithAPC(h)
                   [] OTHER -> JournalGetJournalsWithDOAJSeal(h)]

CallCategoryHandler(h, method, arg) ==
    CASE method = "getById" -> CategoryGetById(h, arg)
      [] method = "getAllCategories" -> CategoryGetAllCategories(h)
      [] method = "getAllAreas" -> CategoryGetAllAreas(h)
      [] method = "getCategoriesWithQuartile" -> CategoryGetCategoriesWithQuartile(h, arg)
      [] method = "getCategoriesAssignedToAreas" -> CategoryGetCategoriesAssignedToAreas(h, arg)
      [] OTHER -> CategoryGetAreasAssignedToCategories(h, arg)

\* a body without its try
Unguarded(body, default) == body

\* try: ... except Exception: return <default>
Guarded(body, default) ==
    [raised |-> FALSE, val |-> IF body.raised THEN default ELSE body.val, log |-> body.log]

\* the loop "for handler in self._journalQuery: df = handler.<method>(...);
\* for _, row in df.iterrows(): journals.append(...)"
JournalListingBody(method, arg) ==
    LET n == Len(journalQuery)
        res == [i \in 1..n |-> CallJournalHandler(journalQuery[i], method, arg)]
        bad == {i \in 1..n : res[i].raised}
        stop == IF bad = {} THEN n ELSE CHOOSE i \in bad : \A k \in bad : i <= k
    IN  [raised |-> bad # {},
         val |-> Flatten([i \in 1..n |-> Journals(res[i].df)]),
         log |-> [i \in 1..stop |-> <<journalQuery[i], method>>]]

JournalListing(method, arg) == Guarded(JournalListingBody(method, arg), <<>>)

GetAllJournals == JournalListing("getAllJournals", None)
GetJournalsWithTitle(partialTitle) == JournalListing("getJournalsWithTitle", partialTitle)
GetJournalsPublishedBy(partialName) == JournalListing("getJournalsPublishedBy", partialName)
GetJournalsWithLicense(licenses) == JournalListing("getJournalsWithLicense", licenses)
GetJournalsWithAPC == JournalListing("getJournalsWithAPC", None)
\* the engine asks its handlers for getJournalsWithDOASeal
GetJournalsWithDOAJSeal == JournalListing("getJournalsWithDOASeal", None)

CategoryListingBody(method, arg) ==
    [raised |-> FALSE,
     val |-> Flatten([i \in 1..Len(categoryQuery) |->
                Categories(CallCategoryHandler(categoryQuery[i], method, arg))]),
     log |-> [i \in 1..Len(categoryQuery) |-> <<categoryQuery[i], method>>]]

AreaListingBody(method, arg) ==
    [raised |-> FALSE,
     val |-> Flatten([i \in 1..Len(categoryQuery) |->
                Areas(CallCategoryHandler(categoryQuery[i], method, arg))]),
     log |-> [i \in 1..Len(categoryQuery) |-> <<categoryQuery[i], method>>]]

GetAllCategories == Guarded(CategoryListingBody("getAllCategories", None), <<>>)
GetAllAreas == Guarded(AreaListingBody("getAllAreas", None), <<>>)
GetCategoriesWithQuartile(quartiles) ==
    Guarded(CategoryListingBody("getCategoriesWithQuartile", quartiles), <<>>)
GetCategoriesAssignedToAreas(area_ids) ==
    Guarded(CategoryListingBody("getCategoriesAssignedToAreas", area_ids), <<>>)
GetAreasAssignedToCategories(category_ids) ==
    Guarded(AreaListingBody("getAreasAssignedToCategories", category_ids), <<>>)

RECURSIVE ProbeCategoryHandlers(_, _, _)
\* the second loop of getEntityById, from position i on
ProbeCategoryHandlers(entity_id, i, log) ==
    IF i > Len(categoryQuery) THEN [raised |-> FALSE, val |-> NoEntity, log |-> log]
    ELSE LET df == CategoryGetById(categoryQuery[i], entity_id)
             seen == Append(log, <<categoryQuery[i], "getById">>)
         IN  IF ~IsEmpty(df)
             THEN [raised |-> FALSE,
                   val |-> IF "quartile" \in df.cols THEN DataframeToCategory(Series(df)[1])
                           ELSE DataframeToArea(Series(df)[1]),
                   log |-> seen]
             ELSE ProbeCategoryHandlers(entity_id, i + 1, seen)

RECURSIVE ProbeJournalHandlers(_, _, _)
\* the first loop of getEntityById, from position i on
ProbeJournalHandlers(entity_id, i, log) ==
    IF i > Len(journalQuery) THEN ProbeCategoryHandlers(entity_id, 1, log)
    ELSE LET df == JournalGetById(journalQuery[i], entity_id)
             seen == Append(log, <<journalQuery[i], "getById">>)
         IN  IF ~IsEmpty(df)
             THEN [raised |-> FALSE, val |-> DataframeToJournal(Series(df)[1]), log |-> seen]
             ELSE ProbeJournalHandlers(entity_id, i + 1, seen)

GetEntityById(entity_id) == Guarded(ProbeJournalHandlers(entity_id, 1, <<>>), NoEntity)


(***************************************************************************)
(* FullQueryEngine.                                                        *)
(***************************************************************************)
\* the engine's own query on a handler's file; an error yields set()
GetIssnsForCategory(h, category_id) ==
    IF ~db[h].created THEN {}
    ELSE {jc[1] : jc \in {r \in db[h].journal_categories : r[2] = category_id /\ category_id # None}}

GetIssnsForArea(h, area_id) ==
    IF ~db[h].created THEN {}
    ELSE {ja[1] : ja \in {r \in db[h].journal_areas : r[2] = area_id /\ area_id # None}}

\* "categories_with_quartile = self.getCategoriesWithQuartile(quartiles)", the
\* filter on category_ids and the loop that collects the ISSNs; reading
\* cat.getIds()[0] of a category without identifier raises IndexError
IssnsInCategories(category_ids, quartiles) ==
    LET found == GetCategoriesWithQuartile(quartiles)
        all == found.val
        noId == {i \in 1..Len(all) : all[i].ids = <<>>}
        kept == IF category_ids = {} THEN all
                ELSE SelectSeq(all, LAMBDA cat : cat.ids # <<>> /\ cat.ids[1] \in category_ids)
        n == Len(categoryQuery)
        before == IF noId = {} \/ category_ids # {} THEN 0
                  ELSE (CHOOSE i \in noId : \A k \in noId : i <= k) - 1
    IN  IF noId # {}
        THEN [raised |-> TRUE, val |-> {},
              log |-> found.log \o [k \in 1..before |-> <<categoryQuery[1], "_get_issns_for_category">>]]
        ELSE [raised |-> FALSE,
              val |-> UNION {GetIssnsForCategory(categoryQuery[i], kept[k].ids[1]) :
                                i \in 1..n, k \in 1..Len(kept)},
              log |-> found.log \o Flatten([i \in 1..n |->
                        [k \in 1..Len(kept) |-> <<categoryQuery[i], "_get_issns_for_category">>]])]

\* the loop over the areas taking no area at all for every area
IssnsInAreasEmptyMeansAll(area_ids) ==
    [val |-> UNION {{ja[1] : ja \in {r \in db[categoryQuery[i]].journal_areas :
                                        area_ids = {} \/ r[2] \in area_ids}} :
                        i \in 1..Len(categoryQuery)},
     log |-> Flatten([i \in 1..Len(categoryQuery) |->
                [k \in 1..Cardinality(area_ids) |-> <<categoryQuery[i], "_get_issns_for_area">>]])]

\* the loop that collects the ISSNs of the areas
IssnsInAreas(area_ids) ==
    [val |-> UNION {GetIssnsForArea(categoryQuery[i], a) : i \in 1..Len(categoryQuery), a \in area_ids},
     log |-> Flatten([i \in 1..Len(categoryQuery) |->
                [k \in 1..Cardinality(area_ids) |-> <<categoryQuery[i], "_get_issns_for_area">>]])]

\* a filter that keeps every journal with an identifier
InIssnsLoose(journal, issns) == journal.ids # <<>>

\* "journal.getIds()[0] if journal.getIds() else None" and the membership test
InIssns(journal, issns) ==
    journal.ids # <<>> /\ Truthy(journal.ids[1]) /\ journal.ids[1] \in issns

GetJournalsInCategoriesWithQuartileBody(category_ids, quartiles) ==
    LET cats == IssnsInCategories(category_ids, quartiles)
        journal_issns == SeqOf(cats.val)
        hits == Flatten([i \in 1..Len(journalQuery) |->
                    Flatten([k \in 1..Len(journal_issns) |->
                        LET df == JournalGetById(journalQuery[i], journal_issns[k])
                        IN  IF ~IsEmpty(df) THEN <<DataframeToJournal(Series(df)[1])>> ELSE <<>>])])
    IN  IF cats.raised THEN [raised |-> TRUE, val |-> <<>>, log |-> cats.log]
        ELSE [raised |-> FALSE, val |-> hits,
              log |-> cats.log \o Flatten([i \in 1..Len(journalQuery) |->
                        [k \in 1..Len(journal_issns) |-> <<journalQuery[i], "getById">>]])]

GetJournalsInCategoriesWithQuartile(category_ids, quartiles) ==
    Guarded(GetJournalsInCategoriesWithQuartileBody(category_ids, quartiles), <<>>)

GetJournalsInAreasWithLicenseBody(area_ids, licenses) ==
    LET journals_with_license == GetJournalsWithLicense(licenses)
        areas == IssnsInAreas(area_ids)
    IN  [raised |-> FALSE,
         val |-> SelectSeq(journals_with_license.val, LAMBDA journal : InIssns(journal, areas.val)),
         log |-> journals_with_license.log \o areas.log]

GetJournalsInAreasWithLicense(area_ids, licenses) ==
    Guarded(GetJournalsInAreasWithLicenseBody(area_ids, licenses), <<>>)

GetDiamondJournalsInAreasAndCategoriesWithQuartileBody(area_ids, category_ids, quartiles) ==
    LET all_journals == GetAllJournals
        journals_without_apc == SelectSeq(all_journals.val, LAMBDA journal : ~journal.apc)
        areas == IssnsInAreas(area_ids)
        cats == IssnsInCategories(category_ids, quartiles)
    IN  IF cats.raised
        THEN [raised |-> TRUE, val |-> <<>>, log |-> all_journals.log \o areas.log \o cats.log]
        ELSE [raised |-> FALSE,
              val |-> SelectSeq(journals_without_apc,
                        LAMBDA journal : InIssns(journal, areas.val) /\ InIssns(journal, cats.val)),
              log |-> all_journals.log \o areas.log \o cats.log]

GetDiamondJournalsInAreasAndCategoriesWithQuartile(area_ids, category_ids, quartiles) ==
    Guarded(GetDiamondJournalsInAreasAndCategoriesWithQuartileBody(area_ids, category_ids, quartiles), <<>>)


(***************************************************************************)
(* The inputs of the operations.                                           *)
(***************************************************************************)
Outcomes == {"ok", "refused", "http500", "garbled"}

\* the dictionary _read_csv_file makes of a CSV row: for each ISSN two rows
\* that differ in every other column
JournalDict(issn, variant) ==
    [title |-> IF variant = "a" THEN "Ai" ELSE "Db",
     issn_print |-> issn,
     eissn |-> "",
     languages |-> <<"en">>,
     publisher |-> IF variant = "a" THEN None ELSE "Acta",
     seal |-> (variant = "a"),
     licence |-> IF variant = "a" THEN "CC BY" ELSE "CC0",
     apc |-> (variant = "b")]

\* CSV files of one row, and of one row per ISSN
JournalFiles ==
    {<<JournalDict("111", "a")>>, <<JournalDict("222", "b")>>,
     <<JournalDict("111", "a"), JournalDict("222", "b")>>,
     <<JournalDict("111", "b"), JournalDict("222", "a")>>}

\* the files loaded while the endpoints fail
OutageJournalFiles == {<<JournalDict("111", "a"), JournalDict("222", "b")>>, <<JournalDict("222", "a")>>}

\* two files about the same ISSN
LookupJournalFiles == {<<JournalDict("111", v)>> : v \in {"a", "b"}}

ScimagoEntry(issn, category_id, quartile, areas) ==
    [identifiers |-> <<issn>>, categories |-> <<[id |-> category_id, quartile |-> quartile]>>, areas |-> areas]

\* Scimago JSON files of one record: the records of the scenario of the
\* specification, a category under another quartile and a category without id
ScimagoFiles ==
    {<<ScimagoEntry("111", "AI", "Q1", <<"CS">>)>>,
     <<ScimagoEntry("222", "DB", "Q2", <<>>)>>,
     <<ScimagoEntry("222", "AI", "Q2", <<"CS">>)>>,
     <<ScimagoEntry("111", "", "Q1", <<>>)>>}

OutageScimagoFiles ==
    {<<ScimagoEntry("111", "AI", "Q1", <<"CS">>)>>, <<ScimagoEntry("111", "", "Q1", <<>>)>>}

\* records whose identifiers name several kinds of entity at once
LookupScimagoFiles ==
    {<<ScimagoEntry("222", "111", "Q1", <<"AI">>)>>,
     <<ScimagoEntry("222", "AI", "Q2", <<"111">>)>>,
     <<[identifiers |-> <<"222">>, categories |-> <<>>, areas |-> <<"AI">>]>>}

EntityIds == {"111", "222", "AI", "CS"}
Texts == {"a", "DB"}

NoRow == [cols |-> {}, v |-> <<>>]

NoCall == [op |-> "none", id |-> "", text |-> "", area_ids |-> {}, category_ids |-> {},
           quartiles |-> {}, licenses |-> {}, row |-> NoRow, args |-> <<>>]
NoRet == [raised |-> FALSE, val |-> <<>>, log |-> <<>>, open |-> 0, waiting |-> FALSE]

Op(name) == [NoCall EXCEPT !.op = name]

(***************************************************************************)
(* The operations as actions.                                              *)
(***************************************************************************)
World == <<graph, net, db, budget>>
Registry == <<journalQuery, categoryQuery>>

\* the engine runs one operation at a time: an operation starts when the
\* caller has taken the result of the one before
Idle == call = NoCall

Return ==
    /\ ~Idle
    /\ call' = NoCall
    /\ ret' = NoRet
    /\ UNCHANGED <<journalQuery, categoryQuery, World>>

\* a registration that appends whatever the list holds
AddHandlerAlways(list, handler) == Append(list, handler)

\* list.append(handler) unless "handler not in list" fails
AddHandler(list, handler) == IF ~InList(handler, list) THEN Append(list, handler) ELSE list

AddJournalHandler(handler) ==
    /\ Idle
    /\ journalQuery' = AddHandler(journalQuery, handler)
    /\ call' = [Op("addJournalHandler") EXCEPT !.id = handler]
    /\ ret' = [NoRet EXCEPT !.val = TRUE]
    /\ UNCHANGED <<categoryQuery, World>>

AddCategoryHandler(handler) ==
    /\ Idle
    /\ categoryQuery' = AddHandler(categoryQuery, handler)
    /\ call' = [Op("addCategoryHandler") EXCEPT !.id = handler]
    /\ ret' = [NoRet EXCEPT !.val = TRUE]
    /\ UNCHANGED <<journalQuery, World>>

CleanJournalHandlers ==
    /\ Idle
    /\ journalQuery' = <<>>
    /\ call' = Op("cleanJournalHandlers")
    /\ ret' = [NoRet EXCEPT !.val = TRUE]
    /\ UNCHANGED <<categoryQuery, World>>

CleanCategoryHandlers ==
    /\ Idle
    /\ categoryQuery' = <<>>
    /\ call' = Op("cleanCategoryHandlers")
    /\ ret' = [NoRet EXCEPT !.val = TRUE]
    /\ UNCHANGED <<journalQuery, World>>

\* the environment: the transport of an endpoint changes its behaviour
SetBackend(h, outcome) ==
    /\ Idle
    /\ net[h] # outcome
    /\ net' = [net EXCEPT ![h] = outcome]
    /\ call' = NoCall
    /\ ret' = NoRet
    /\ UNCHANGED <<Registry, graph, db, budget>>

\* JournalUploadHandler.pushDataToDb on a file that _read_csv_file can read
JournalPushDataToDb(h, file) ==
    /\ Idle
    /\ budget.journals > 0
    /\ LET r == UploadToBlazegraph(file, graph[h], net[h])
       IN  /\ graph' = [graph EXCEPT ![h] = r.store]
           /\ ret' = [NoRet EXCEPT !.val = r.result]
    /\ budget' = [budget EXCEPT !.journals = @ - 1]
    /\ call' = [Op("JournalUploadHandler.pushDataToDb") EXCEPT !.id = h]
    /\ UNCHANGED <<Registry, net, db>>

\* CategoryUploadHandler.pushDataToDb on a file that _read_json_file can read
CategoryPushDataToDb(h, file) ==
    /\ Idle
    /\ budget.categories > 0
    /\ db' = [db EXCEPT ![h] = UploadToSqlite(db[h], file)]
    /\ ret' = [NoRet EXCEPT !.val = TRUE]
    /\ budget' = [budget EXCEPT !.categories = @ - 1]
    /\ call' = [Op("CategoryUploadHandler.pushDataToDb") EXCEPT !.id = h]
    /\ UNCHANGED <<Registry, graph, net>>

\* a query that empties the list of journal handlers as it goes
QueryClearing(c, r) ==
    /\ Idle
    /\ call' = c
    /\ ret' = r
    /\ journalQuery' = <<>>
    /\ UNCHANGED <<categoryQuery, World>>

\* a query: the call and its result are recorded
Query(c, r) ==
    /\ Idle
    /\ call' = c
    /\ ret' = r
    /\ UNCHANGED <<Registry, World>>

QGetEntityById(id) == Query([Op("getEntityById") EXCEPT !.id = id], GetEntityById(id))
QGetAllJournals == Query(Op("getAllJournals"), GetAllJournals)
QGetJournalsWithTitle(t) == Query([Op("getJournalsWithTitle") EXCEPT !.text = t], GetJournalsWithTitle(t))
QGetJournalsPublishedBy(t) == Query([Op("getJournalsPublishedBy") EXCEPT !.text = t], GetJournalsPublishedBy(t))
QGetJournalsWithLicense(ls) == Query([Op("getJournalsWithLicense") EXCEPT !.licenses = ls], GetJournalsWithLicense(ls))
QGetJournalsWithAPC == Query(Op("getJournalsWithAPC"), GetJournalsWithAPC)
QGetJournalsWithDOAJSeal == Query(Op("getJournalsWithDOAJSeal"), GetJournalsWithDOAJSeal)
QGetAllCategories == Query(Op("getAllCategories"), GetAllCategories)
QGetAllAreas == Query(Op("getAllAreas"), GetAllAreas)
QGetCategoriesWithQuartile(qs) ==
    Query([Op("getCategoriesWithQuartile") EXCEPT !.quartiles = qs], GetCategoriesWithQuartile(qs))
QGetCategoriesAssignedToAreas(as) ==
    Query([Op("getCategoriesAssignedToAreas") EXCEPT !.area_ids = as], GetCategoriesAssignedToAreas(as))
QGetAreasAssignedToCategories(cs) ==
    Query([Op("getAreasAssignedToCategories") EXCEPT !.category_ids = cs], GetAreasAssignedToCategories(cs))
QGetJournalsInCategoriesWithQuartile(cs, qs) ==
    Query([Op("getJournalsInCategoriesWithQuartile") EXCEPT !.category_ids = cs, !.quartiles = qs],
          GetJournalsInCategoriesWithQuartile(cs, qs))
QGetJournalsInAreasWithLicense(as, ls) ==
    Query([Op("getJournalsInAreasWithLicense") EXCEPT !.area_ids = as, !.licenses = ls],
          GetJournalsInAreasWithLicense(as, ls))
QGetDiamondJournalsInAreasAndCategoriesWithQuartile(as, cs, qs) ==
    Query([Op("getDiamondJournalsInAreasAndCategoriesWithQuartile")
              EXCEPT !.area_ids = as, !.category_ids = cs, !.quartiles = qs],
          GetDiamondJournalsInAreasAndCategoriesWithQuartile(as, cs, qs))

\* getAllJournals called again when the caller has its result and nothing
\* else has happened: both results are recorded
GetAllJournalsAgain ==
    /\ call.op = "getAllJournals"
    /\ call' = Op("getAllJournals, twice")
    /\ ret' = [NoRet EXCEPT !.val = <<ret.val, GetAllJournals.val>>]
    /\ UNCHANGED <<Registry, World>>

\* every query of the engine
AnyQuery ==
    \/ \E id \in EntityIds : QGetEntityById(id)
    \/ QGetAllJournals
    \/ \E t \in Texts : QGetJournalsWithTitle(t)
    \/ \E t \in Texts : QGetJournalsPublishedBy(t)
    \/ \E ls \in SUBSET Licences : QGetJournalsWithLicense(ls)
    \/ QGetJournalsWithAPC
    \/ QGetJournalsWithDOAJSeal
    \/ QGetAllCategories
    \/ QGetAllAreas
    \/ \E qs \in SUBSET Quartiles : QGetCategoriesWithQuartile(qs)
    \/ \E as \in SUBSET AreaIds : QGetCategoriesAssignedToAreas(as)
    \/ \E cs \in SUBSET CategoryIds : QGetAreasAssignedToCategories(cs)
    \/ \E cs \in SUBSET CategoryIds, qs \in SUBSET Quartiles : QGetJournalsInCategoriesWithQuartile(cs, qs)
    \/ \E as \in SUBSET AreaIds, ls \in SUBSET Licences : QGetJournalsInAreasWithLicense(as, ls)
    \/ \E as \in SUBSET AreaIds, cs \in SUBSET CategoryIds, qs \in SUBSET Quartiles :
          QGetDiamondJournalsInAreasAndCategoriesWithQuartile(as, cs, qs)

(***************************************************************************)
(* Spec: the engine from its construction on, with its registry, the       *)
(* uploads and the look-up of an entity.                                   *)
(***************************************************************************)
Stores ==
    /\ graph = [h \in JournalHandlers |-> {}]
    /\ net = [h \in JournalHandlers |-> "ok"]
    /\ db = [h \in CategoryHandlers |-> NoTables]
    /\ call = NoCall
    /\ ret = NoRet

Init ==
    /\ journalQuery = <<>>
    /\ categoryQuery = <<>>
    /\ budget = [journals |-> MaxJournalUploads, categories |-> MaxCategoryUploads]
    /\ Stores

Next ==
    \/ \E h \in JournalHandlers : AddJournalHandler(h)
    \/ \E h \in CategoryHandlers : AddCategoryHandler(h)
    \/ CleanJournalHandlers
    \/ CleanCategoryHandlers
    \/ \E h \in JournalHandlers, f \in LookupJournalFiles : JournalPushDataToDb(h, f)
    \/ \E h \in CategoryHandlers, f \in LookupScimagoFiles : CategoryPushDataToDb(h, f)
    \/ \E h \in JournalHandlers, o \in {"ok", "refused"} : SetBackend(h, o)
    \/ \E id \in EntityIds : QGetEntityById(id)
    \/ Return

Spec == Init /\ [][Next]_vars

(***************************************************************************)
(* SpecQueries: every query, on an engine whose four handlers have been    *)
(* registered (addJournalHandler J1, J2; addCategoryHandler K1, K2).       *)
(***************************************************************************)
InitQueries ==
    /\ journalQuery = <<"J1", "J2">>
    /\ categoryQuery = <<"K1", "K2">>
    /\ budget = [journals |-> MaxJournalFiles, categories |-> MaxCategoryFiles]
    /\ Stores

NextQueries ==
    \/ \E h \in JournalHandlers, f \in JournalFiles : JournalPushDataToDb(h, f)
    \/ \E h \in CategoryHandlers, f \in ScimagoFiles : CategoryPushDataToDb(h, f)
    \/ AnyQuery
    \/ GetAllJournalsAgain
    \/ Return

SpecQueries == InitQueries /\ [][NextQueries]_vars

(***************************************************************************)
(* SpecOutage: every query, while the transport of the endpoints fails.    *)
(***************************************************************************)
InitOutage ==
    /\ journalQuery = <<"J1", "J2">>
    /\ categoryQuery = <<"K1", "K2">>
    /\ budget = [journals |-> MaxOutageUploads, categories |-> MaxOutageUploads]
    /\ Stores

NextOutage ==
    \/ \E h \in JournalHandlers, o \in Outcomes : SetBackend(h, o)
    \/ \E h \in JournalHandlers, f \in OutageJournalFiles : JournalPushDataToDb(h, f)
    \/ \E h \in CategoryHandlers, f \in OutageScimagoFiles : CategoryPushDataToDb(h, f)
    \/ AnyQuery
    \/ Return

SpecOutage == InitOutage /\ [][NextOutage]_vars


(***************************************************************************)
(* SpecMapper: the row-to-Journal mapper on the rows a bibliographic       *)
(* backend can answer with, whatever loaded it.                            *)
(***************************************************************************)
\* the spellings of a boolean cell, a cell the row does not bind, and a column
\* the frame does not have
BoolCells == {"true", "TRUE", "True", "1", "false", "0", NaN, NoCol}
IssnCells == {"1234-5678", NaN, NoCol}
EissnCells == {"8765-4321", NoCol}
LicenceCells == {"CC BY", NaN, NoCol}

BackendRows ==
    {[cols |-> {"journal", "title"}
                \cup (IF i # NoCol THEN {"issn"} ELSE {})
                \cup (IF e # NoCol THEN {"eissn"} ELSE {})
                \cup (IF sl # NoCol THEN {"seal"} ELSE {})
                \cup (IF a # NoCol THEN {"apc"} ELSE {})
                \cup (IF lc # NoCol THEN {"licence"} ELSE {}),
      v |-> [journal |-> "1234-5678", title |-> "X", issn |-> i, eissn |-> e, language |-> NaN,
             publisher |-> NaN, seal |-> sl, licence |-> lc, apc |-> a]] :
        i \in IssnCells, e \in EissnCells, sl \in BoolCells, a \in BoolCells, lc \in LicenceCells}

MapJournal(row) ==
    /\ Idle
    /\ call' = [Op("_dataframe_to_journal") EXCEPT !.row = row]
    /\ ret' = [NoRet EXCEPT !.val = <<DataframeToJournal(row)>>]
    /\ UNCHANGED <<Registry, World>>

InitMapper ==
    /\ journalQuery = <<>>
    /\ categoryQuery = <<>>
    /\ budget = [journals |-> 0, categories |-> 0]
    /\ Stores

NextMapper ==
    \/ \E row \in BackendRows : MapJournal(row)
    \/ Return

SpecMapper == InitMapper /\ [][NextMapper]_vars


(***************************************************************************)
(* SpecText: the query texts JournalQueryHandler generates.  A text is a   *)
(* sequence of tokens: the pieces of the f-string template, and the        *)
(* characters of the arguments it embeds.                                  *)
(***************************************************************************)
Quote == "\""
Backslash == "\\"
Newline == "\n"

\* the characters of a text argument
ArgChars == {"a", Quote, Backslash, Newline}

TextArgs == UNION {[1..n -> ArgChars] : n \in 0..MaxArgLen}

\* "{entity_id}" in the f-string: the argument between two quotes, as it is
Literal(text) == <<Quote>> \o text \o <<Quote>>

RECURSIVE JoinLicenses(_)
\* " || ".join([f'?licence = "{license}"' for license in licenses])
JoinLicenses(licenses) ==
    IF licenses = <<>> THEN <<>>
    ELSE <<"?licence = ">> \o Literal(Head(licenses))
            \o (IF Tail(licenses) = <<>> THEN <<>> ELSE <<" || ">> \o JoinLicenses(Tail(licenses)))

\* the text of the query of a method for its arguments: one text for getById
\* and the two partial matches, the licences for getJournalsWithLicense
QueryText(method, args) ==
    CASE method = "getById" ->
            <<"SELECT WHERE { ?journal rdf:type doaj:Journal . ?journal doaj:issn ">>
                \o Literal(args[1]) \o <<" . ?journal doaj:title ?title . OPTIONAL }">>
      [] method = "getJournalsWithTitle" ->
            <<"SELECT WHERE { FILTER (CONTAINS(LCASE(?title), LCASE(">>
                \o Literal(args[1]) \o <<"))) OPTIONAL } ORDER BY ?title">>
      [] method = "getJournalsPublishedBy" ->
            <<"SELECT WHERE { FILTER (CONTAINS(LCASE(?publisher), LCASE(">>
                \o Literal(args[1]) \o <<"))) OPTIONAL } ORDER BY ?title">>
      [] OTHER ->
            <<"SELECT WHERE { ?journal doaj:licence ?licence . FILTER (">>
                \o JoinLicenses(args) \o <<") OPTIONAL } ORDER BY ?title">>

\* a method of JournalQueryHandler builds its query text
BuildQuery(method, args) ==
    /\ Idle
    /\ call' = [Op(method) EXCEPT !.args = args]
    /\ ret' = [NoRet EXCEPT !.val = QueryText(method, args)]
    /\ UNCHANGED <<Registry, World>>

NextText ==
    \/ \E t \in TextArgs : BuildQuery("getById", <<t>>)
    \/ \E t \in TextArgs : BuildQuery("getJournalsWithTitle", <<t>>)
    \/ \E t \in TextArgs : BuildQuery("getJournalsPublishedBy", <<t>>)
    \/ \E t, u \in TextArgs : BuildQuery("getJournalsWithLicense", IF t = u THEN <<t>> ELSE <<t, u>>)
    \/ Return

SpecText == InitMapper /\ [][NextText]_vars


(***************************************************************************)
(* SpecConnections: the connections to the classification stores.  Each    *)
(* call of a CategoryQueryHandler query, of _get_issns_for_category and of *)
(* _get_issns_for_area opens one with sqlite3.connect and closes it after  *)
(* the query; when the query raises (the file has no tables) the except    *)
(* clause returns without conn.close(), and the connection stays open      *)
(* until the interpreter finalises the object, at return or later.         *)
(***************************************************************************)
\* the connections the calls of a log have not closed
ConnectionsNotClosed(log) ==
    Cardinality({k \in 1..Len(log) : log[k][1] \in CategoryHandlers /\ ~db[log[k][1]].created})

\* a query, with the connections that are open when it returns
TrackedQuery(c, r) ==
    /\ Idle
    /\ call' = c
    /\ \E finalised \in BOOLEAN :
        ret' = [raised |-> r.raised, val |-> r.val, log |-> r.log,
                open |-> IF finalised THEN 0 ELSE ConnectionsNotClosed(r.log)]
    /\ UNCHANGED <<Registry, World>>

NextConnections ==
    \/ \E h \in JournalHandlers, f \in OutageJournalFiles : JournalPushDataToDb(h, f)
    \/ \E h \in CategoryHandlers, f \in OutageScimagoFiles : CategoryPushDataToDb(h, f)
    \/ \E id \in EntityIds : TrackedQuery([Op("getEntityById") EXCEPT !.id = id], GetEntityById(id))
    \/ TrackedQuery(Op("getAllCategories"), GetAllCategories)
    \/ TrackedQuery(Op("getAllAreas"), GetAllAreas)
    \/ \E qs \in SUBSET Quartiles :
          TrackedQuery([Op("getCategoriesWithQuartile") EXCEPT !.quartiles = qs], GetCategoriesWithQuartile(qs))
    \/ \E as \in SUBSET AreaIds :
          TrackedQuery([Op("getCategoriesAssignedToAreas") EXCEPT !.area_ids = as],
                       GetCategoriesAssignedToAreas(as))
    \/ \E cs \in SUBSET CategoryIds :
          TrackedQuery([Op("getAreasAssignedToCategories") EXCEPT !.category_ids = cs],
                       GetAreasAssignedToCategories(cs))
    \/ \E cs \in SUBSET CategoryIds, qs \in SUBSET Quartiles :
          TrackedQuery([Op("getJournalsInCategoriesWithQuartile") EXCEPT !.category_ids = cs, !.quartiles = qs],
                       GetJournalsInCategoriesWithQuartile(cs, qs))
    \/ \E as \in SUBSET AreaIds, ls \in SUBSET Licences :
          TrackedQuery([Op("getJournalsInAreasWithLicense") EXCEPT !.area_ids = as, !.licenses = ls],
                       GetJournalsInAreasWithLicense(as, ls))
    \/ \E as \in SUBSET AreaIds, cs \in SUBSET CategoryIds, qs \in SUBSET Quartiles :
          TrackedQuery([Op("getDiamondJournalsInAreasAndCategoriesWithQuartile")
                            EXCEPT !.area_ids = as, !.category_ids = cs, !.quartiles = qs],
                       GetDiamondJournalsInAreasAndCategoriesWithQuartile(as, cs, qs))
    \/ Return

SpecConnections == InitQueries /\ [][NextConnections]_vars


(***************************************************************************)
(* SpecTimeout: one request of _execute_sparql_query, from requests.get to *)
(* its answer.  An endpoint that is "silent" accepts the request and never *)
(* answers it; requests.get is called without a timeout.                   *)
(***************************************************************************)
\* _execute_sparql_query sends the query of getAllJournals and waits
Request(h) ==
    /\ Idle
    /\ call' = [Op("_execute_sparql_query") EXCEPT !.id = h]
    /\ ret' = [NoRet EXCEPT !.waiting = TRUE]
    /\ UNCHANGED <<Registry, World>>

\* requests.get returns or raises, and _execute_sparql_query returns its frame
Respond(h) ==
    /\ call.op = "_execute_sparql_query" /\ call.id = h
    /\ ret.waiting
    /\ net[h] # "silent"
    /\ ret' = [NoRet EXCEPT !.val = ExecuteSparqlQuery(net[h], TRUE, Solutions(graph[h], {})).rows]
    /\ UNCHANGED <<call, Registry, World>>

\* the caller takes the frame
Answered ==
    /\ call.op = "_execute_sparql_query"
    /\ ~ret.waiting
    /\ call' = NoCall
    /\ ret' = NoRet
    /\ UNCHANGED <<Registry, World>>

\* the handlers registered, each store as a file of journals or none has
\* left it
InitTimeout ==
    /\ journalQuery = <<"J1", "J2">>
    /\ categoryQuery = <<"K1", "K2">>
    /\ budget = [journals |-> 0, categories |-> 0]
    /\ graph \in [JournalHandlers ->
                    {{}} \cup {UploadToBlazegraph(f, {}, "ok").store : f \in OutageJournalFiles}]
    /\ net = [h \in JournalHandlers |-> "ok"]
    /\ db = [h \in CategoryHandlers |-> NoTables]
    /\ call = NoCall
    /\ ret = NoRet

NextTimeout ==
    \/ \E h \in JournalHandlers, o \in Outcomes \cup {"silent"} : SetBackend(h, o)
    \/ \E h \in JournalHandlers : Request(h)
    \/ \E h \in JournalHandlers : Respond(h)
    \/ Answered

SpecTimeout ==
    /\ InitTimeout /\ [][NextTimeout]_vars
    /\ \A h \in JournalHandlers : WF_vars(Respond(h))
    /\ WF_vars(Answered)


(***************************************************************************)
(* JournalUploadHandler batch by batch: the endpoint answers each POST of  *)
(* an upload on its own, and a CSV row may lack either ISSN.               *)
(***************************************************************************)
MaxRows == 2

\* the dictionary of a CSV row with the given print ISSN and EISSN columns
CsvDict(issn, eissn) == [JournalDict(issn, "a") EXCEPT !.eissn = eissn]

RowKinds == {CsvDict("111", ""), CsvDict("", "222"), CsvDict("111", "222"), CsvDict("", "")}

\* a file one row longer than a batch
LongFile == [i \in 1..(BatchSize + 1) |-> IF i <= BatchSize THEN CsvDict("111", "") ELSE CsvDict("", "222")]

UploadFiles == UNION {[1..n -> RowKinds] : n \in 1..MaxRows} \cup {LongFile}

\* how the endpoint answers the successive POST requests of one upload
PostAnswers == [1..Len(Chunked(LongFile, BatchSize)) -> {"ok", "http500", "refused"}]

RECURSIVE UploadBatchesStopAtRejected(_, _, _, _, _)
\* the loop, were a batch answered with another status the last one sent
UploadBatchesStopAtRejected(batches, store, uploaded, answers, done) ==
    IF batches = <<>> THEN [store |-> store, uploaded |-> uploaded, raised |-> FALSE, batches |-> done]
    ELSE LET sparql_query == BuildInsertQuery(Head(batches))
             fate(f) == Append(done, [query |-> sparql_query, fate |-> f])
         IN  IF Head(answers) = "refused"
             THEN [store |-> store, uploaded |-> uploaded, raised |-> TRUE, batches |-> fate("raised")]
             ELSE IF Head(answers) = "http500"
             THEN [store |-> store, uploaded |-> uploaded, raised |-> FALSE, batches |-> fate("rejected")]
             ELSE UploadBatchesStopAtRejected(Tail(batches), store \cup sparql_query,
                                              uploaded + Len(Head(batches)), Tail(answers), fate("accepted"))

RECURSIVE UploadBatchesAnswered(_, _, _, _, _)
\* the loop over the batches when the k-th POST gets answers[k]: the store,
\* uploaded_records, whether requests.post raised, and for each batch taken
\* up the query built for it and what became of it
UploadBatchesAnswered(batches, store, uploaded, answers, done) ==
    IF batches = <<>> THEN [store |-> store, uploaded |-> uploaded, raised |-> FALSE, batches |-> done]
    ELSE LET sparql_query == BuildInsertQuery(Head(batches))
             fate(f) == Append(done, [query |-> sparql_query, fate |-> f])
         IN  IF Head(answers) = "refused"
             THEN [store |-> store, uploaded |-> uploaded, raised |-> TRUE, batches |-> fate("raised")]
             ELSE IF Head(answers) = "http500"
             THEN UploadBatchesAnswered(Tail(batches), store, uploaded, Tail(answers), fate("rejected"))
             ELSE UploadBatchesAnswered(Tail(batches), store \cup sparql_query,
                                        uploaded + Len(Head(batches)), Tail(answers), fate("accepted"))

\* _upload_to_blazegraph: the store, the value returned, the message
\* printed before returning, and the batches taken up
UploadToBlazegraphAnswered(journals_data, store, answers) ==
    IF journals_data = <<>>
    THEN [store |-> store, result |-> FALSE, message |-> "No data to upload", batches |-> <<>>]
    ELSE LET r == UploadBatchesAnswered(Chunked(journals_data, BatchSize), store, 0, answers, <<>>)
         IN  [store |-> r.store,
              result |-> (~r.raised /\ r.uploaded = Len(journals_data)),
              message |-> IF r.raised THEN "Error while uploading to Blazegraph"
                          ELSE IF r.uploaded = Len(journals_data) THEN "Successfully uploaded"
                          ELSE IF r.uploaded > 0 THEN "Partially uploaded"
                          ELSE "Failed to upload any journals",
              batches |-> r.batches]

\* JournalUploadHandler.pushDataToDb on a file of at least one row
JournalPushBatches(h, file, answers) ==
    /\ Idle
    /\ budget.journals > 0
    /\ LET r == UploadToBlazegraphAnswered(file, graph[h], answers)
       IN  /\ graph' = [graph EXCEPT ![h] = r.store]
           /\ ret' = [NoRet EXCEPT !.val = [result |-> r.result, message |-> r.message,
                                            batches |-> r.batches]]
    /\ budget' = [budget EXCEPT !.journals = @ - 1]
    /\ call' = [Op("JournalUploadHandler.pushDataToDb, batches") EXCEPT !.id = h, !.args = <<file, answers>>]
    /\ UNCHANGED <<Registry, net, db>>

NextUpload ==
    \/ \E h \in JournalHandlers, file \in UploadFiles, answers \in PostAnswers :
           JournalPushBatches(h, file, answers)
    \/ Return

SpecUpload == Init /\ [][NextUpload]_vars


(***************************************************************************)
(* IdentifiableEntity: the identifier list of one entity under addId and   *)
(* setId.  ret.val is the list _ids, ret.log the arguments passed since    *)
(* the last setId, that call's own argument first.                         *)
(***************************************************************************)
MaxIdCalls == 4

IdArgs == {"", None, "111", "222", "333"}

\* addId without the test for an identifier already in the list
AddIdAlways(ids, entity_id) == IF Truthy(entity_id) THEN Append(ids, entity_id) ELSE ids

\* the list _ids after addId(entity_id)
AddId(ids, entity_id) ==
    IF Truthy(entity_id) /\ ~InList(entity_id, ids) THEN Append(ids, entity_id) ELSE ids

EntityAddId(entity_id) ==
    /\ Len(ret.log) < MaxIdCalls
    /\ call' = [Op("addId") EXCEPT !.id = entity_id]
    /\ ret' = [NoRet EXCEPT !.val = AddId(ret.val, entity_id), !.log = Append(ret.log, entity_id)]
    /\ UNCHANGED <<Registry, World>>

EntitySetId(entity_id) ==
    /\ call' = [Op("setId") EXCEPT !.id = entity_id]
    /\ ret' = [NoRet EXCEPT !.val = SetId(entity_id), !.log = <<entity_id>>]
    /\ UNCHANGED <<Registry, World>>

NextEntity ==
    \/ \E entity_id \in IdArgs : EntityAddId(entity_id)
    \/ \E entity_id \in IdArgs : EntitySetId(entity_id)

SpecEntity == InitMapper /\ [][NextEntity]_vars


(***************************************************************************)
(* CategoryUploadHandler on one file twice: ret.val keeps the tables as    *)
(* they were before the call.                                              *)
(***************************************************************************)
\* files whose records repeat a category with another quartile, or have a
\* category without an id
ReloadFiles ==
    {<<ScimagoEntry("111", "AI", "Q1", <<"CS">>)>>,
     <<ScimagoEntry("111", "AI", "Q2", <<"CS">>), ScimagoEntry("222", "DB", "Q2", <<>>)>>,
     <<ScimagoEntry("222", "AI", "Q3", <<>>), ScimagoEntry("222", "AI", "Q1", <<"CS">>)>>,
     <<ScimagoEntry("222", "DB", "Q2", <<"Med">>)>>,
     <<ScimagoEntry("111", None, "Q1", <<>>)>>}

\* CategoryUploadHandler.pushDataToDb on a file that _read_json_file can read
CategoryPushFile(h, file) ==
    /\ Idle
    /\ budget.categories > 0
    /\ db' = [db EXCEPT ![h] = UploadToSqlite(db[h], file)]
    /\ ret' = [NoRet EXCEPT !.val = [result |-> TRUE, before |-> db[h]]]
    /\ budget' = [budget EXCEPT !.categories = @ - 1]
    /\ call' = [Op("CategoryUploadHandler.pushDataToDb, file") EXCEPT !.id = h, !.args = file]
    /\ UNCHANGED <<Registry, graph, net>>

\* the same file pushed again, right after the first call has returned
CategoryPushAgain ==
    /\ call.op = "CategoryUploadHandler.pushDataToDb, file"
    /\ db' = [db EXCEPT ![call.id] = UploadToSqlite(db[call.id], call.args)]
    /\ ret' = [NoRet EXCEPT !.val = [result |-> TRUE, before |-> db[call.id]]]
    /\ call' = [call EXCEPT !.op = "CategoryUploadHandler.pushDataToDb, again"]
    /\ UNCHANGED <<Registry, graph, net, budget>>

\* the two queries of a CategoryQueryHandler that go from areas to
\* categories and back, called on the handler itself
HandlerCategoriesAssignedToAreas(h, area_ids) ==
    /\ Idle
    /\ call' = [Op("CategoryQueryHandler.getCategoriesAssignedToAreas") EXCEPT !.id = h, !.area_ids = area_ids]
    /\ ret' = [NoRet EXCEPT !.val = CategoryGetCategoriesAssignedToAreas(h, area_ids)]
    /\ UNCHANGED <<Registry, World>>

HandlerAreasAssignedToCategories(h, category_ids) ==
    /\ Idle
    /\ call' = [Op("CategoryQueryHandler.getAreasAssignedToCategories") EXCEPT !.id = h, !.category_ids = category_ids]
    /\ ret' = [NoRet EXCEPT !.val = CategoryGetAreasAssignedToCategories(h, category_ids)]
    /\ UNCHANGED <<Registry, World>>

NextReload ==
    \/ \E h \in CategoryHandlers, file \in ReloadFiles : CategoryPushFile(h, file)
    \/ CategoryPushAgain
    \/ \E h \in CategoryHandlers, area_ids \in SUBSET {"CS", "Med"} :
           HandlerCategoriesAssignedToAreas(h, area_ids)
    \/ \E h \in CategoryHandlers, category_ids \in SUBSET {"AI", "DB"} :
           HandlerAreasAssignedToCategories(h, category_ids)
    \/ Return

SpecReload == Init /\ [][NextReload]_vars


(***************************************************************************)
(* Journals with a print ISSN and an EISSN, and classification records     *)
(* that name a journal by the one or by the other.                         *)
(***************************************************************************)
EissnJournalFiles ==
    {<<CsvDict("111", "222")>>, <<CsvDict("", "222")>>, <<CsvDict("111", "")>>, <<CsvDict("222", "333")>>}

EissnScimagoFiles ==
    {<<ScimagoEntry("222", "AI", "Q1", <<"CS">>)>>, <<ScimagoEntry("111", "AI", "Q1", <<"CS">>)>>,
     <<ScimagoEntry("333", "DB", "Q2", <<"CS">>)>>}

NextEissn ==
    \/ \E h \in JournalHandlers, f \in EissnJournalFiles : JournalPushDataToDb(h, f)
    \/ \E h \in CategoryHandlers, f \in EissnScimagoFiles : CategoryPushDataToDb(h, f)
    \/ \E id \in {"111", "222", "333"} : QGetEntityById(id)
    \/ \E cs \in SUBSET {"AI"}, qs \in SUBSET {"Q1"} : QGetJournalsInCategoriesWithQuartile(cs, qs)
    \/ \E as \in SUBSET {"CS"} : QGetJournalsInAreasWithLicense(as, {"CC BY"})
    \/ \E as \in SUBSET {"CS"}, cs \in SUBSET {"AI"} :
          QGetDiamondJournalsInAreasAndCategoriesWithQuartile(as, cs, {})
    \/ Return

SpecEissn == InitOutage /\ [][NextEissn]_vars


(***************************************************************************)
(* The journal listings on stores whose journals have several languages    *)
(* and are uploaded more than once.                                        *)
(***************************************************************************)
ListingFiles ==
    {<<[JournalDict("111", "a") EXCEPT !.languages = <<"en", "fr">>]>>,
     <<JournalDict("111", "b")>>,
     <<[JournalDict("222", "b") EXCEPT !.languages = <<"en", "fr">>]>>}

InitListing ==
    /\ journalQuery = <<"J1", "J2">>
    /\ categoryQuery = <<>>
    /\ budget = [journals |-> MaxJournalUploads, categories |-> 0]
    /\ Stores

NextListing ==
    \/ \E h \in JournalHandlers, f \in ListingFiles : JournalPushDataToDb(h, f)
    \/ QGetAllJournals
    \/ \E t \in Texts : QGetJournalsWithTitle(t)
    \/ \E t \in Texts : QGetJournalsPublishedBy(t)
    \/ \E ls \in SUBSET Licences : QGetJournalsWithLicense(ls)
    \/ QGetJournalsWithAPC
    \/ Return

SpecListing == InitListing /\ [][NextListing]_vars


(***************************************************************************)
(* SpecBatches: _upload_to_blazegraph called on lists of no, one, two and  *)
(* three batches, each POST answered, rejected or refused.                 *)
(***************************************************************************)
\* a list of three batches, the last of one row
LongerFile ==
    [i \in 1..(2 * BatchSize + 1) |-> IF i <= BatchSize THEN CsvDict("111", "")
                                      ELSE IF i <= 2 * BatchSize THEN CsvDict("111", "222")
                                      ELSE CsvDict("", "222")]

BatchLists == {<<>>, <<CsvDict("111", "")>>, LongFile, LongerFile}

BatchAnswers == [1..Len(Chunked(LongerFile, BatchSize)) -> {"ok", "http500", "refused"}]

\* JournalUploadHandler._upload_to_blazegraph(journals_data)
UploadToBlazegraphCall(h, journals_data, answers) ==
    /\ Idle
    /\ budget.journals > 0
    /\ LET r == UploadToBlazegraphAnswered(journals_data, graph[h], answers)
       IN  /\ graph' = [graph EXCEPT ![h] = r.store]
           /\ ret' = [NoRet EXCEPT !.val = [result |-> r.result, message |-> r.message,
                                            batches |-> r.batches]]
    /\ budget' = [budget EXCEPT !.journals = @ - 1]
    /\ call' = [Op("JournalUploadHandler._upload_to_blazegraph") EXCEPT !.id = h, !.args = <<journals_data, answers>>]
    /\ UNCHANGED <<Registry, net, db>>

NextBatches ==
    \/ \E h \in JournalHandlers, journals_data \in BatchLists, answers \in BatchAnswers :
           UploadToBlazegraphCall(h, journals_data, answers)
    \/ Return

SpecBatches == Init /\ [][NextBatches]_vars


(***************************************************************************)
(* SpecChunked: _chunked on lists of up to MaxItems items and sizes up to  *)
(* MaxSize, and on the long lists with the batch size of the upload.       *)
(***************************************************************************)
MaxItems == 5
MaxSize == 3

ItemLists == UNION {[1..n -> {CsvDict("111", ""), CsvDict("", "222")}] : n \in 0..MaxItems}

ChunkedInputs ==
    (ItemLists \X (1..MaxSize)) \cup {<<LongFile, BatchSize>>, <<LongerFile, BatchSize>>}

\* list(JournalUploadHandler._chunked(items, size))
ChunkedCall(items, size) ==
    /\ Idle
    /\ call' = [Op("JournalUploadHandler._chunked") EXCEPT !.args = <<items, size>>]
    /\ ret' = [NoRet EXCEPT !.val = Chunked(items, size)]
    /\ UNCHANGED <<Registry, World>>

NextChunked ==
    \/ \E in \in ChunkedInputs : ChunkedCall(in[1], in[2])
    \/ Return

SpecChunked == InitMapper /\ [][NextChunked]_vars


(***************************************************************************)
(* Properties.  What the stores hold, read from the tables themselves.     *)
(***************************************************************************)
\* the rows of a table over the registered classification stores
Pooled(table) == UNION {db[h][table] : h \in Range(categoryQuery)}

\* the areas and the categories journal_areas / journal_categories associate
\* with an ISSN
AreasOf(issn) == {r[2] : r \in {ja \in Pooled("journal_areas") : ja[1] = issn}}
CategoriesOf(issn) == {r[2] : r \in {jc \in Pooled("journal_categories") : jc[1] = issn}}

\* the ids of the categories of a quartile of `quartiles` (of any quartile when
\* it is empty), among `category_ids` when it is not empty
QualifyingCategories(category_ids, quartiles) ==
    {c[1] : c \in {r \in Pooled("categories") :
                    /\ quartiles = {} \/ r[2] \in quartiles
                    /\ category_ids = {} \/ r[1] \in category_ids}}

\* the ids of the categories getCategoriesWithQuartile returns
ReturnedCategories(quartiles) ==
    {c.ids[1] : c \in {d \in Range(GetCategoriesWithQuartile(quartiles).val) : d.ids # <<>>}}

InCategoriesCall == call.op = "getJournalsInCategoriesWithQuartile"
InAreasCall == call.op = "getJournalsInAreasWithLicense"
DiamondCall == call.op = "getDiamondJournalsInAreasAndCategoriesWithQuartile"

\* C1: every journal a mashup query returns satisfies each of its predicates.
\* Diamond: no APC, an area of area_ids, and a category that
\* getCategoriesWithQuartile(quartiles) returns, of category_ids when that is
\* not empty.  In areas with licence: returned by getJournalsWithLicense and
\* in an area of area_ids.  In categories: in a category that
\* getCategoriesWithQuartile returns, of category_ids when that is not empty.
C1_MashupResultsSatisfyPredicates ==
    /\ DiamondCall =>
        \A j \in Range(ret.val) :
            /\ ~j.apc
            /\ j.ids # <<>>
            /\ AreasOf(j.ids[1]) \cap call.area_ids # {}
            /\ \E c \in CategoriesOf(j.ids[1]) \cap ReturnedCategories(call.quartiles) :
                    call.category_ids = {} \/ c \in call.category_ids
    /\ InAreasCall =>
        \A j \in Range(ret.val) :
            /\ j \in Range(GetJournalsWithLicense(call.licenses).val)
            /\ j.licence \in call.licenses
            /\ j.ids # <<>>
            /\ AreasOf(j.ids[1]) \cap call.area_ids # {}
    /\ InCategoriesCall =>
        \A j \in Range(ret.val) :
            /\ j.ids # <<>>
            /\ \E c \in CategoriesOf(j.ids[1]) \cap ReturnedCategories(call.quartiles) :
                    call.category_ids = {} \/ c \in call.category_ids

\* a diamond query has returned a journal, with every filter in use
C1_DiamondReturnsJournal ==
    /\ DiamondCall
    /\ call.area_ids # {} /\ call.category_ids # {} /\ call.quartiles # {}
    /\ ret.val # <<>>

\* the ISSNs of the journals of a result
IssnsOf(journals) == {j.ids[1] : j \in {k \in Range(journals) : k.ids # <<>>}}

\* the ISSNs the registered bibliographic stores hold
StoredIssns == {t[3] : t \in {u \in UNION {graph[h] : h \in Range(journalQuery)} : u[2] = "issn"}}

\* C2: getJournalsInCategoriesWithQuartile returns exactly the journals whose
\* ISSN journal_categories associates with a category whose quartile is in
\* quartiles (any quartile when quartiles is empty) and whose id is in
\* category_ids when that is not empty.
C2_InCategoriesExact ==
    InCategoriesCall =>
        IssnsOf(ret.val) =
            {i \in StoredIssns :
                CategoriesOf(i) \cap QualifyingCategories(call.category_ids, call.quartiles) # {}}

\* C3: the diamond query returns exactly the journals of getAllJournals()
\* that have no APC and whose id is both among the ISSNs of the areas and
\* among the ISSNs of the qualifying categories; it fetches no journal again.
C3_DiamondExact ==
    DiamondCall =>
        /\ ret.val = SelectSeq(GetAllJournals.val, LAMBDA j :
                        /\ ~j.apc
                        /\ j.ids # <<>>
                        /\ AreasOf(j.ids[1]) \cap call.area_ids # {}
                        /\ CategoriesOf(j.ids[1])
                             \cap QualifyingCategories(call.category_ids, call.quartiles) # {})
        /\ \A k \in 1..Len(ret.log) : ret.log[k][2] # "getById"

\* C4: getJournalsWithDOAJSeal returns one Journal per row of the DOAJ-seal
\* query of each registered handler.
C4_SealListingOnePerRow ==
    call.op = "getJournalsWithDOAJSeal" =>
        ret.val = Flatten([i \in 1..Len(journalQuery) |->
                        Journals(JournalGetJournalsWithDOAJSeal(journalQuery[i]))])


NoDuplicates(list) == \A i, k \in 1..Len(list) : list[i] = list[k] => i = k

\* a step that is a call of op: the engine was idle and now records the call
Calls(op) == call.op = "none" /\ call'.op = op

\* C5: after any sequence of add and clean calls no handler list holds an
\* instance twice; a registration returns True, leaves the handler in its
\* list, and leaves the list unchanged when the handler already was in it.
C5_NoHandlerTwice ==
    /\ [](/\ NoDuplicates(journalQuery)
          /\ NoDuplicates(categoryQuery)
          /\ call.op = "addJournalHandler" => ret.val = TRUE /\ InList(call.id, journalQuery)
          /\ call.op = "addCategoryHandler" => ret.val = TRUE /\ InList(call.id, categoryQuery))
    /\ [][/\ Calls("addJournalHandler") /\ InList(call'.id, journalQuery)
                => journalQuery' = journalQuery
          /\ Calls("addCategoryHandler") /\ InList(call'.id, categoryQuery)
                => categoryQuery' = categoryQuery]_vars

\* the first of two registered handlers has just been registered again
C5_ReAdded ==
    /\ call.op = "addJournalHandler"
    /\ Len(journalQuery) = 2
    /\ call.id = journalQuery[1]

\* C6: with an empty set, getCategoriesWithQuartile and
\* getCategoriesAssignedToAreas of a CategoryQueryHandler return the rows of
\* getAllCategories, and getAreasAssignedToCategories those of getAllAreas;
\* so do the engine's operations of these names.
C6_EmptySetMeansAll ==
    /\ \A h \in CategoryHandlers :
        /\ CategoryGetCategoriesWithQuartile(h, {}) = CategoryGetAllCategories(h)
        /\ CategoryGetCategoriesAssignedToAreas(h, {}) = CategoryGetAllCategories(h)
        /\ CategoryGetAreasAssignedToCategories(h, {}) = CategoryGetAllAreas(h)
    /\ call.op = "getCategoriesWithQuartile" /\ call.quartiles = {}
            => ret.val = GetAllCategories.val
    /\ call.op = "getCategoriesAssignedToAreas" /\ call.area_ids = {}
            => ret.val = GetAllCategories.val
    /\ call.op = "getAreasAssignedToCategories" /\ call.category_ids = {}
            => ret.val = GetAllAreas.val

\* getCategoriesWithQuartile(set()) has returned categories of two stores
C6_AllCategoriesReturned ==
    /\ call.op = "getCategoriesWithQuartile"
    /\ call.quartiles = {}
    /\ Len(ret.val) >= 2
    /\ \A h \in CategoryHandlers : db[h].categories # {}


\* C7: the row-to-Journal mapper reads "true", "TRUE", "True" and "1" in the
\* seal (resp. apc) column as True, and seal "true" with apc "false" as seal
\* True and APC False.
C7_BooleanSpellingsReadTrue ==
    call.op = "_dataframe_to_journal" =>
        LET journal == ret.val[1]
            seal == Get(call.row, "seal", "false")
            apc == Get(call.row, "apc", "false")
        IN  /\ seal \in {"true", "TRUE", "True", "1"} => journal.seal
            /\ apc \in {"true", "TRUE", "True", "1"} => journal.apc
            /\ seal = "true" /\ apc = "false" => journal.seal /\ ~journal.apc

\* the registered bibliographic stores whose endpoint answers
Reachable == {h \in Range(journalQuery) : net[h] = "ok"}

\* the ISSNs a registered bibliographic store with a working endpoint holds
ReachableIssns == {t[3] : t \in {u \in UNION {graph[h] : h \in Reachable} : u[2] = "issn"}}

JournalOperations ==
    {"getAllJournals", "getJournalsWithTitle", "getJournalsPublishedBy", "getJournalsWithLicense",
     "getJournalsWithAPC", "getJournalsWithDOAJSeal", "getJournalsInCategoriesWithQuartile",
     "getJournalsInAreasWithLicense", "getDiamondJournalsInAreasAndCategoriesWithQuartile"}

\* the rows of the categories, and of the areas, a classification operation
\* is to return, read from the tables of the registered stores
CategoryRowsFor(op, arg) ==
    UNION {{r \in db[h].categories :
                CASE op = "getAllCategories" -> TRUE
                  [] op = "getCategoriesWithQuartile" -> arg = {} \/ r[2] \in arg
                  [] OTHER -> arg = {} \/
                        \E jc \in db[h].journal_categories, ja \in db[h].journal_areas :
                            jc[2] = r[1] /\ jc[1] = ja[1] /\ ja[2] \in arg}
           : h \in Range(categoryQuery)}

AreaRowsFor(arg) ==
    UNION {{r \in db[h].areas :
                arg = {} \/ \E ja \in db[h].journal_areas, jc \in db[h].journal_categories :
                                ja[2] = r[1] /\ ja[1] = jc[1] /\ jc[2] \in arg}
           : h \in Range(categoryQuery)}

CategoriesAre(rows) ==
    {<<c.ids, c.quartile>> : c \in Range(ret.val)} = {<<SetId(r[1]), r[2]>> : r \in rows}

AreasAre(rows) == {a.ids : a \in Range(ret.val)} = {SetId(r[1]) : r \in rows}

\* C8: a journal-returning operation does not raise and returns journals of
\* reachable bibliographic stores only, so an empty list when no registered
\* endpoint is reachable (its transport raises, answers a status other than
\* 200, or answers an undecodable body); the five classification operations
\* return the rows the tables of the classification stores hold for their
\* argument, whatever the endpoints do.
C8_OutageEmptiesJournalOperations ==
    /\ call.op \in JournalOperations =>
        /\ ~ret.raised
        /\ IssnsOf(ret.val) \subseteq ReachableIssns
        /\ Reachable = {} => ret.val = <<>>
    /\ call.op = "getAllCategories" => CategoriesAre(CategoryRowsFor(call.op, {}))
    /\ call.op = "getCategoriesWithQuartile" => CategoriesAre(CategoryRowsFor(call.op, call.quartiles))
    /\ call.op = "getCategoriesAssignedToAreas" => CategoriesAre(CategoryRowsFor(call.op, call.area_ids))
    /\ call.op = "getAllAreas" => AreasAre(AreaRowsFor({}))
    /\ call.op = "getAreasAssignedToCategories" => AreasAre(AreaRowsFor(call.category_ids))

\* getAllJournals has returned nothing of the journals the stores hold, no
\* endpoint being reachable: one refuses the connection or answers 500, the
\* other answers a body that is no JSON
C8_AllEndpointsDown ==
    /\ call.op = "getAllJournals"
    /\ ret.val = <<>>
    /\ StoredIssns # {}
    /\ Reachable = {}
    /\ \E h \in JournalHandlers : net[h] = "garbled" /\ graph[h] # {}

\* the probes of getEntityById, in their order
Probes == journalQuery \o categoryQuery

JournalKnows(h, id) == net[h] = "ok" /\ \E t \in graph[h] : t[2] = "issn" /\ t[3] = id
CategoryKnows(h, id) == \E r \in db[h].categories : r[1] = id
AreaKnows(h, id) == <<id>> \in db[h].areas

\* handler number i of the probes has a row for id
Knows(i, id) ==
    IF i <= Len(journalQuery) THEN JournalKnows(Probes[i], id)
    ELSE CategoryKnows(Probes[i], id) \/ AreaKnows(Probes[i], id)

\* C9: getEntityById(id) asks the bibliographic handlers in registration
\* order, then the classification handlers in registration order, up to the
\* first that has a row for id; it returns a Journal when that handler is
\* bibliographic, a Category when the handler has id as a category (also as an
\* area or not) and an Area otherwise, and None without raising when no
\* handler has a row.  So an id that a reachable registered bibliographic
\* store holds as ISSN resolves to the Journal, and an id that is a category
\* and an area of the first classification store that has it resolves to the
\* Category.
C9_FirstHandlerWithRowDecides ==
    call.op = "getEntityById" =>
        LET id == call.id
            knowing == {i \in 1..Len(Probes) : Knows(i, id)}
            first == CHOOSE i \in knowing : \A k \in knowing : i <= k
        IN  /\ ~ret.raised
            /\ knowing = {} =>
                /\ ret.val = NoEntity
                /\ ret.log = [k \in 1..Len(Probes) |-> <<Probes[k], "getById">>]
            /\ knowing # {} =>
                /\ ret.log = [k \in 1..first |-> <<Probes[k], "getById">>]
                /\ ret.val.ids = <<id>>
                /\ ret.val.kind = IF first <= Len(journalQuery) THEN "Journal"
                                  ELSE IF CategoryKnows(Probes[first], id) THEN "Category"
                                  ELSE "Area"

\* an id that is a category and an area of one store has resolved to the
\* Category, after a bibliographic handler and another classification handler
\* had no row for it
C9_CategoryAndAreaOfOneStore ==
    /\ call.op = "getEntityById"
    /\ ret.val.kind = "Category"
    /\ Len(ret.log) >= 3
    /\ \E h \in Range(categoryQuery) : CategoryKnows(h, call.id) /\ AreaKnows(h, call.id)

\* C9 as the specification words its consequence: an id that is a category
\* and an area (and no ISSN of a journal) resolves to the Category.
C9_CategoryBeforeArea ==
    (/\ call.op = "getEntityById"
     /\ \E h \in Range(categoryQuery) : CategoryKnows(h, call.id)
     /\ \E h \in Range(categoryQuery) : AreaKnows(h, call.id)
     /\ \A h \in JournalHandlers : \A t \in graph[h] : ~(t[2] = "issn" /\ t[3] = call.id))
        => ret.val.kind = "Category"

\* the categories getCategoriesWithQuartile(quartiles) finds without an id
IdlessFound(quartiles) ==
    {r \in Pooled("categories") : ~Truthy(r[1]) /\ (quartiles = {} \/ r[2] \in quartiles)}

\* the ISSNs of the areas, and of the qualifying categories
AreaIssns(area_ids) == {ja[1] : ja \in {r \in Pooled("journal_areas") : r[2] \in area_ids}}
CategoryIssns(category_ids, quartiles) ==
    {jc[1] : jc \in {r \in Pooled("journal_categories") :
                        r[2] \in QualifyingCategories(category_ids, quartiles)}}

\* the ISSNs of the journals getJournalsWithLicense can return
LicensedIssns(licenses) ==
    {i \in ReachableIssns : \E h \in Reachable : \E t \in graph[h] :
        t[1] = i /\ t[2] = "licence" /\ t[3] \in licenses}

Unescaped(c) == CASE c = "n" -> Newline [] c = Quote -> Quote [] c = Backslash -> Backslash [] OTHER -> "?"

RECURSIVE Lex(_, _, _, _, _)
\* the tokens of a query text from position i on: the tokens outside the
\* string literals and the values of the literals; ok is false when a literal
\* is not closed, holds a raw newline, or holds an escape that does not exist
Lex(text, i, inside, outside, literals) ==
    IF i > Len(text) THEN [ok |-> ~inside, outside |-> outside, literals |-> literals]
    ELSE IF ~inside
    THEN IF text[i] = Quote THEN Lex(text, i + 1, TRUE, outside, Append(literals, <<>>))
         ELSE Lex(text, i + 1, FALSE, Append(outside, text[i]), literals)
    ELSE LET n == Len(literals)
         IN  CASE text[i] = Quote -> Lex(text, i + 1, FALSE, outside, literals)
               [] text[i] = Newline -> [ok |-> FALSE, outside |-> outside, literals |-> literals]
               [] text[i] = Backslash ->
                    IF i = Len(text) \/ Unescaped(text[i + 1]) = "?"
                    THEN [ok |-> FALSE, outside |-> outside, literals |-> literals]
                    ELSE Lex(text, i + 2, TRUE, outside,
                             [literals EXCEPT ![n] = Append(@, Unescaped(text[i + 1]))])
               [] OTHER -> Lex(text, i + 1, TRUE, outside, [literals EXCEPT ![n] = Append(@, text[i])])

Parse(text) == Lex(text, 1, FALSE, <<>>, <<>>)

TextOperations == {"getById", "getJournalsWithTitle", "getJournalsPublishedBy", "getJournalsWithLicense"}

\* C11: the query text JournalQueryHandler generates for a text argument
\* (entity id, partial title, partial publisher name, licence) reads as the
\* template around string literals whose values are the arguments: a double
\* quote, a backslash or a newline of an argument does not end the literal,
\* and adds or alters nothing outside it.
C11_ArgumentsStayInTheirLiterals ==
    call.op \in TextOperations =>
        LET read == Parse(ret.val)
            template == Parse(QueryText(call.op, [i \in 1..Len(call.args) |-> <<>>]))
        IN  /\ read.ok
            /\ read.outside = template.outside
            /\ read.literals = call.args

\* C12: every call that has opened a connection to a classification store
\* has closed it when it returns, also when the query raised and an empty
\* result is returned: no connection is open after an operation.
C12_NoConnectionLeftOpen == ret.open = 0

\* C13: no adapter call blocks for ever: a request of _execute_sparql_query
\* eventually returns, also when the endpoint never answers it.
C13_RequestEventuallyReturns == ret.waiting ~> ~ret.waiting

Fates == {ret.val.batches[k].fate : k \in 1..Len(ret.val.batches)}

UploadCalled == call.op = "JournalUploadHandler.pushDataToDb, batches"

\* what the caller of an upload gets to see
Outcome(r) == <<r.result, r.message>>

\* the outcomes of the uploads of which no batch, or every batch, was accepted
TotalOutcomes ==
    {Outcome(r) : r \in {x \in {UploadToBlazegraphAnswered(f, {}, a) : f \in UploadFiles, a \in PostAnswers} :
                             LET fs == {x.batches[k].fate : k \in 1..Len(x.batches)}
                             IN  fs = {"accepted"} \/ "accepted" \notin fs}}

\* C15: an upload of which at least one batch was accepted and at least one
\* was not is reported with an outcome that no total success and no total
\* failure has.
C15_PartialUploadReportedApart ==
    (UploadCalled /\ "accepted" \in Fates /\ Fates # {"accepted"}) => Outcome(ret.val) \notin TotalOutcomes

\* the arguments of log that are an identifier and occur there for the first
\* time, in the order of log
FirstInsertions(log) ==
    LET keep == {i \in 1..Len(log) : log[i] \notin {"", None} /\ \A k \in 1..(i - 1) : log[k] # log[i]}
        nth(n) == CHOOSE i \in keep : Cardinality({k \in keep : k < i}) = n - 1
    IN  [n \in 1..Cardinality(keep) |-> log[nth(n)]]

\* C16: after any sequence of addId and setId the identifier list has no
\* duplicate and no empty identifier and holds the identifiers passed since
\* the last setId in the order of their first insertion; addId of an
\* identifier already in the list, or of an empty one, leaves the list as it
\* was; setId leaves the single identifier passed, or no identifier when it
\* is empty.
C16_IdListKept ==
    /\ [](/\ NoDuplicates(ret.val)
          /\ \A i \in 1..Len(ret.val) : ret.val[i] \notin {"", None}
          /\ ret.val = FirstInsertions(ret.log)
          /\ call.op = "setId" =>
                 ret.val = (IF call.id \in {"", None} THEN <<>> ELSE <<call.id>>))
    /\ [][(call'.op = "addId" /\ (call'.id \in {"", None} \/ InList(call'.id, ret.val)))
              => ret'.val = ret.val]_vars

\* three calls of addId since setId, one of them for an identifier the list
\* already had, one for an empty identifier
C16_RepeatedAndEmptyAdded ==
    /\ call.op = "addId"
    /\ Len(ret.log) = 4
    /\ "" \in Range(ret.log)
    /\ ~NoDuplicates(ret.log)
    /\ Len(ret.val) = 2

\* the rows of the file just uploaded and of its k-th batch
UploadedFile == call.args[1]

BatchRows(k) == Chunked(UploadedFile, BatchSize)[k]

HasIssn(row) == row.issn_print # "" \/ row.eissn # ""

\* C17: the insert query built for a batch of CSV rows has triples for
\* exactly the rows with a print ISSN or an EISSN, each under its print ISSN
\* when it has one and under its EISSN otherwise; a row with neither adds no
\* triple, and an upload whose batches are all accepted succeeds with such
\* rows in the file.
C17_TriplesForRowsWithIssn ==
    UploadCalled =>
        /\ \A k \in 1..Len(ret.val.batches) :
               LET q == ret.val.batches[k].query
                   rows == BatchRows(k)
                   named == {i \in 1..Len(rows) : HasIssn(rows[i])}
                   identity(i) == IF rows[i].issn_print # "" THEN rows[i].issn_print ELSE rows[i].eissn
               IN  /\ {t[1] : t \in q} = {identity(i) : i \in named}
                   /\ \A i \in named :
                          /\ <<identity(i), "type", "Journal">> \in q
                          /\ <<identity(i), "title", rows[i].title>> \in q
                          /\ rows[i].issn_print # "" => <<identity(i), "issn", rows[i].issn_print>> \in q
                          /\ rows[i].eissn # "" => <<identity(i), "eissn", rows[i].eissn>> \in q
        /\ Fates = {"accepted"} => ret.val.result

\* an accepted upload of a row with both ISSNs and a row with neither
C17_RowWithoutIssnUploaded ==
    /\ UploadCalled
    /\ ret.val.result
    /\ \E i, k \in 1..Len(UploadedFile) :
           /\ ~HasIssn(UploadedFile[i])
           /\ UploadedFile[k].issn_print # "" /\ UploadedFile[k].eissn # ""
    /\ graph[call.id] # {}

PushedFile == call.op \in {"CategoryUploadHandler.pushDataToDb, file", "CategoryUploadHandler.pushDataToDb, again"}

\* the rows of table with the cells key in the columns 1..Len(key)
RowsWithKey(table, key) == {r \in table : \A i \in 1..Len(key) : r[i] = key[i]}

\* every row that was in table before is there after, alone with its key
FirstWritten(before, after, n) ==
    \A r \in before : r \in after /\ (None \notin {r[i] : i \in 1..n} => RowsWithKey(after, SubSeq(r, 1, n)) = {r})

\* C18: after a successful CategoryUploadHandler.pushDataToDb the tables
\* hold every area id, every category id and every (issn, category) and
\* (issn, area) pair of every record of the file; an id or pair that was
\* there already is skipped and keeps the quartile written first; and
\* pushing the same file a second time leaves the four tables exactly as
\* they were after the first time.
C18_UploadCompleteAndRepeatable ==
    PushedFile =>
        LET t == db[call.id]
            old == ret.val.before
        IN  /\ \A n \in 1..Len(call.args) :
                   LET entry == call.args[n]
                   IN  /\ \A i \in 1..Len(entry.areas) : RowsWithKey(t.areas, <<entry.areas[i]>>) # {}
                       /\ \A i \in 1..Len(entry.categories) :
                              RowsWithKey(t.categories, <<entry.categories[i].id>>) # {}
                       /\ \A k \in 1..Len(entry.identifiers) :
                              /\ \A i \in 1..Len(entry.categories) :
                                     RowsWithKey(t.journal_categories,
                                                 <<entry.identifiers[k], entry.categories[i].id>>) # {}
                              /\ \A i \in 1..Len(entry.areas) :
                                     RowsWithKey(t.journal_areas, <<entry.identifiers[k], entry.areas[i]>>) # {}
            /\ FirstWritten(old.areas, t.areas, 1)
            /\ FirstWritten(old.categories, t.categories, 1)
            /\ FirstWritten(old.journal_categories, t.journal_categories, 2)
            /\ FirstWritten(old.journal_areas, t.journal_areas, 2)
            /\ call.op = "CategoryUploadHandler.pushDataToDb, again" => t = old

\* the ISSNs the store of handler h pairs with a category and with an area
PairedIssns(h) ==
    {jc[1] : jc \in db[h].journal_categories} \cup {ja[1] : ja \in db[h].journal_areas}

CategoryPaired(h, issn, category_id) ==
    \E jc \in db[h].journal_categories : jc[1] = issn /\ jc[2] = category_id

AreaPaired(h, issn, area_id) == \E ja \in db[h].journal_areas : ja[1] = issn /\ ja[2] = area_id

\* C19: for a non-empty set of area ids, getCategoriesAssignedToAreas of a
\* CategoryQueryHandler returns exactly the rows of the categories table
\* whose category some ISSN is paired with in journal_categories while the
\* same ISSN is paired with one of the areas in journal_areas, each row
\* once; for a non-empty set of category ids getAreasAssignedToCategories
\* returns in the same way the areas of the areas table.
C19_AssignedThroughOneIssn ==
    /\ (call.op = "CategoryQueryHandler.getCategoriesAssignedToAreas" /\ call.area_ids # {}) =>
           /\ NoDuplicates(ret.val.rows)
           /\ {<<r.id, r.quartile>> : r \in Range(ret.val.rows)} =
                  {<<c[1], c[2]>> : c \in
                      {c \in db[call.id].categories :
                          /\ c[1] # None
                          /\ \E issn \in PairedIssns(call.id) \ {None}, a \in call.area_ids :
                                 CategoryPaired(call.id, issn, c[1]) /\ AreaPaired(call.id, issn, a)}}
    /\ (call.op = "CategoryQueryHandler.getAreasAssignedToCategories" /\ call.category_ids # {}) =>
           /\ NoDuplicates(ret.val.rows)
           /\ {r.id : r \in Range(ret.val.rows)} =
                  {a[1] : a \in
                      {a \in db[call.id].areas :
                          /\ a[1] # None
                          /\ \E issn \in PairedIssns(call.id) \ {None}, c \in call.category_ids :
                                 AreaPaired(call.id, issn, a[1]) /\ CategoryPaired(call.id, issn, c)}}

\* a store with two categories and two areas of which the query for one area
\* returns one category
C19_OneOfTwoCategories ==
    /\ call.op = "CategoryQueryHandler.getCategoriesAssignedToAreas"
    /\ call.area_ids = {"CS"}
    /\ Len(ret.val.rows) = 1
    /\ Cardinality(db[call.id].categories) >= 2
    /\ Cardinality(db[call.id].areas) = 2

QueryOperations ==
    JournalOperations \cup
    {"getEntityById", "getAllCategories", "getAllAreas", "getCategoriesWithQuartile",
     "getCategoriesAssignedToAreas", "getAreasAssignedToCategories"}

\* C20: no query operation of the engine, whether it succeeds or fails,
\* changes the list of journal handlers or the list of category handlers;
\* a handler being named by the store its dbPathOrUrl points to, the
\* dbPathOrUrl of every registered handler stays as it was too.
C20_QueriesLeaveRegistry ==
    [][(call.op = "none" /\ call'.op \in QueryOperations)
           => (journalQuery' = journalQuery /\ categoryQuery' = categoryQuery)]_vars

\* a listing that found no endpoint answering, with both lists still full
C20_FailedQueryRegistryKept ==
    /\ call.op = "getAllJournals"
    /\ net["J1"] = "refused" /\ net["J2"] = "http500"
    /\ graph["J1"] # {}
    /\ ret.val = <<>>
    /\ Len(journalQuery) = 2 /\ Len(categoryQuery) = 2

\* the row just mapped has no value in column c: the frame has no such
\* column, or pandas filled the cell because other rows have one
Unbound(c) == c \notin call.row.cols \/ call.row.v[c] = NaN

\* C21: when a row of a bibliographic result has no value for a column,
\* whether or not other rows of the result have one, the mapper returns a
\* Journal with the default in its place: seal and apc False, title and
\* licence the empty string, and the EISSN for identifier when the print
\* ISSN is the one without value.
C21_UnboundColumnsGetDefaults ==
    call.op = "_dataframe_to_journal" =>
        LET journal == ret.val[1]
        IN  /\ journal.kind = "Journal"
            /\ Unbound("seal") => journal.seal = FALSE
            /\ Unbound("apc") => journal.apc = FALSE
            /\ Unbound("title") => journal.title = ""
            /\ Unbound("licence") => journal.licence = ""
            /\ Unbound("issn") =>
                   journal.ids = (IF Unbound("eissn") THEN <<>> ELSE <<call.row.v["eissn"]>>)

\* the categories with an id that qualify for a call
IdentifiedCategories(category_ids, quartiles) == QualifyingCategories(category_ids, quartiles) \ {"", None}

\* C22: getJournalsInCategoriesWithQuartile and the diamond query never read
\* the first identifier of a Category that has none: a category mapped from
\* a row with a null or empty id makes no stage raise, and the journals of
\* the other categories are returned as without it.
C22_FirstIdentifierReadChecked ==
    /\ InCategoriesCall =>
        /\ ~IssnsInCategories(call.category_ids, call.quartiles).raised
        /\ IssnsOf(ret.val) =
               {i \in StoredIssns :
                   CategoriesOf(i) \cap IdentifiedCategories(call.category_ids, call.quartiles) # {}}
    /\ DiamondCall =>
        /\ ~IssnsInCategories(call.category_ids, call.quartiles).raised
        /\ IssnsOf(ret.val) =
               {i \in IssnsOf(SelectSeq(GetAllJournals.val, LAMBDA j : ~j.apc)) :
                   /\ AreasOf(i) \cap call.area_ids # {}
                   /\ CategoriesOf(i) \cap IdentifiedCategories(call.category_ids, call.quartiles) # {}}

\* C23: every Journal a journal-listing operation of the engine returns
\* carries, in getCategories() and getAreas(), the categories and the areas
\* that the registered classification stores associate with its identifier.
C23_AssociationsPopulated ==
    call.op \in JournalOperations =>
        \A j \in Range(ret.val) :
            j.ids # <<>> =>
                /\ {c.ids : c \in Range(j.categories)} = {SetId(c) : c \in CategoriesOf(j.ids[1])}
                /\ {a.ids : a \in Range(j.areas)} = {SetId(a) : a \in AreasOf(j.ids[1])}

\* every category id of the registered classification stores
StoredCategoryIds == {c[1] : c \in Pooled("categories")}

\* C24: with an empty area_ids getJournalsInAreasWithLicense and the diamond
\* query return the empty list, whatever the stores hold; with an empty
\* category_ids getJournalsInCategoriesWithQuartile and the diamond query
\* return what they return when every category id of the stores is given.
C24_EmptyAreasNothingEmptyCategoriesAll ==
    /\ ((InAreasCall \/ DiamondCall) /\ call.area_ids = {}) => ret.val = <<>>
    /\ (InCategoriesCall /\ call.category_ids = {}) =>
           IssnsOf(ret.val) = IssnsOf(GetJournalsInCategoriesWithQuartile(StoredCategoryIds, call.quartiles).val)
    /\ (DiamondCall /\ call.category_ids = {}) =>
           ret.val = GetDiamondJournalsInAreasAndCategoriesWithQuartile(
                         call.area_ids, StoredCategoryIds, call.quartiles).val

\* a diamond query without category ids has returned a journal while the
\* stores hold two categories
C24_DiamondOfEveryCategory ==
    /\ DiamondCall
    /\ call.category_ids = {} /\ call.area_ids # {}
    /\ ret.val # <<>>
    /\ Cardinality(StoredCategoryIds) >= 2

\* C25: every journal getJournalsInCategoriesWithQuartile returns for a
\* non-empty set of quartiles is paired in journal_categories with some
\* category under a quartile of that set: the quartile kept on the pairing
\* agrees with the one kept on the category row the query filters by.
C25_PairingQuartileInQuartiles ==
    (InCategoriesCall /\ call.quartiles # {}) =>
        \A j \in Range(ret.val) :
            /\ j.ids # <<>>
            /\ \E jc \in Pooled("journal_categories") : jc[1] = j.ids[1] /\ jc[3] \in call.quartiles

\* the ISSNs the registered classification stores pair with anything
ClassifiedIssns == {r[1] : r \in Pooled("journal_categories") \cup Pooled("journal_areas")}

\* <<print ISSN, EISSN>> of the journals of the registered bibliographic
\* stores that the classification stores list under the EISSN only
ListedByEissnOnly ==
    {p \in UNION {{<<i[3], e[3]>> : i \in {t \in graph[h] : t[2] = "issn"},
                                    e \in {t \in graph[h] : t[2] = "eissn"}} : h \in Range(journalQuery)} :
        /\ \E h \in Range(journalQuery) :
               \E s \in {t[1] : t \in graph[h]} :
                   <<s, "issn", p[1]>> \in graph[h] /\ <<s, "eissn", p[2]>> \in graph[h]
        /\ p[2] \in ClassifiedIssns
        /\ p[1] \notin ClassifiedIssns}

\* C26: a journal is joined across the stores through one identifier: a
\* Journal found by getEntityById(id) has id for print ISSN, and a journal
\* that has a print ISSN and that the classification stores list under its
\* EISSN only is returned by no mashup query and not found by
\* getEntityById(EISSN).
C26_JoinedByFirstIdentifierOnly ==
    /\ (call.op = "getEntityById" /\ ret.val.kind = "Journal") => ret.val.ids = <<call.id>>
    /\ (InCategoriesCall \/ InAreasCall \/ DiamondCall) =>
           \A p \in ListedByEissnOnly : p[1] \notin IssnsOf(ret.val)
    /\ call.op = "getEntityById" =>
           \A p \in ListedByEissnOnly :
               call.id = p[2] => ~(ret.val.kind = "Journal" /\ ret.val.ids = <<p[1]>>)

\* journal 111 with EISSN 222 is licensed and in no area by its print ISSN,
\* area CS lists 222, and the query for CS and its licence returns nothing
C26_EissnListedJournalMissed ==
    /\ InAreasCall
    /\ call.area_ids = {"CS"}
    /\ <<"111", "222">> \in ListedByEissnOnly
    /\ "111" \in IssnsOf(GetJournalsWithLicense(call.licenses).val)
    /\ "222" \in AreaIssns(call.area_ids)
    /\ ret.val = <<>>

RECURSIVE SumSeq(_)
SumSeq(numbers) == IF numbers = <<>> THEN 0 ELSE Head(numbers) + SumSeq(Tail(numbers))

\* how many values the store of handler h has for predicate p of journal s
Values(h, s, p) == Cardinality(Objects(graph[h], s, p))

\* an OPTIONAL pattern with no value still gives one solution
AtLeastOne(n) == IF n = 0 THEN 1 ELSE n

\* the solutions of the getAllJournals query of handler h for journal s
RowsOfJournal(h, s) ==
    IF <<s, "type", "Journal">> \notin graph[h] THEN 0
    ELSE Values(h, s, "title") * AtLeastOne(Values(h, s, "issn")) * AtLeastOne(Values(h, s, "eissn"))
         * AtLeastOne(Values(h, s, "language")) * AtLeastOne(Values(h, s, "publisher"))
         * AtLeastOne(Values(h, s, "seal")) * AtLeastOne(Values(h, s, "licence"))
         * AtLeastOne(Values(h, s, "apc"))

\* how often the list just returned has a Journal of identifier s
Appearances(s) == Cardinality({i \in 1..Len(ret.val) : ret.val[i].ids = <<s>>})

ListedJournals == UNION {{t[1] : t \in graph[h]} : h \in Range(journalQuery)}

ListingCall ==
    call.op \in {"getAllJournals", "getJournalsWithTitle", "getJournalsPublishedBy",
                 "getJournalsWithLicense", "getJournalsWithAPC"}

PooledMatch(c, jc) ==
    /\ c[1] = jc[2] /\ Truthy(c[1])
    /\ call.quartiles = {} \/ c[2] \in call.quartiles
    /\ call.category_ids = {} \/ c[1] \in call.category_ids
    /\ jc[1] \in StoredIssns

\* C28: the mashup queries pool the qualifying categories of all registered
\* classification handlers and look each up in the journal_categories of
\* every handler: a journal that handler B pairs with category c is returned
\* as soon as some handler A has c with a quartile of the set asked for,
\* whatever quartile B has for c (the diamond query returning it when it
\* also has no APC and is in an area asked for).
C28_CategoriesPooledAcrossHandlers ==
    /\ InCategoriesCall =>
        \A A \in Range(categoryQuery), B \in Range(categoryQuery) :
            \A c \in db[A].categories, jc \in db[B].journal_categories :
                PooledMatch(c, jc) => jc[1] \in IssnsOf(ret.val)
    /\ DiamondCall =>
        \A A \in Range(categoryQuery), B \in Range(categoryQuery) :
            \A c \in db[A].categories, jc \in db[B].journal_categories :
                (/\ PooledMatch(c, jc)
                 /\ jc[1] \in IssnsOf(SelectSeq(GetAllJournals.val, LAMBDA j : ~j.apc))
                 /\ AreasOf(jc[1]) \cap call.area_ids # {})
                    => jc[1] \in IssnsOf(ret.val)

BatchesCall == call.op = "JournalUploadHandler._upload_to_blazegraph"

\* the number of POST requests made when the k-th is answered answers[k]:
\* all of the n batches, or those up to the first refused one
RequestsMade(answers, n) ==
    LET refused == {k \in 1..n : answers[k] = "refused"}
    IN  IF refused = {} THEN n ELSE CHOOSE k \in refused : \A m \in refused : k <= m

\* C29: _upload_to_blazegraph posts the insert queries of the batches in
\* the order of the list; a batch answered with a status other than 200 is
\* followed by the later batches, a transport exception ends the upload
\* with False and leaves the batches accepted before it in the store; the
\* call returns True exactly when the list is not empty and every batch is
\* answered with status 200.
C29_BatchesInOrderAllAccepted ==
    BatchesCall =>
        LET chunks == Chunked(call.args[1], BatchSize)
            answers == call.args[2]
            sent == ret.val.batches
            n == RequestsMade(answers, Len(chunks))
        IN  /\ Len(sent) = n
            /\ \A k \in 1..n :
                   /\ sent[k].query = BuildInsertQuery(chunks[k])
                   /\ sent[k].fate = CASE answers[k] = "ok" -> "accepted"
                                       [] answers[k] = "http500" -> "rejected"
                                       [] OTHER -> "raised"
                   /\ answers[k] = "ok" => sent[k].query \subseteq graph[call.id]
            /\ ret.val.result <=> (call.args[1] # <<>> /\ \A k \in 1..Len(chunks) : answers[k] = "ok")

\* a rejected batch followed by an accepted one, then a refused one
C29_RejectedThenAcceptedThenRefused ==
    /\ BatchesCall
    /\ Len(ret.val.batches) = 3
    /\ ret.val.batches[1].fate = "rejected"
    /\ ret.val.batches[2].fate = "accepted"
    /\ ret.val.batches[3].fate = "raised"
    /\ ~ret.val.result
    /\ ret.val.batches[2].query # {} /\ ret.val.batches[2].query \subseteq graph[call.id]

ChunkedCalled == call.op = "JournalUploadHandler._chunked"

RECURSIVE Concatenation(_)
Concatenation(batches) ==
    IF batches = <<>> THEN <<>> ELSE Head(batches) \o Concatenation(Tail(batches))

\* C30: for a list of items and a size of at least 1, _chunked yields
\* non-empty batches whose concatenation is the list in its order; every
\* batch but the last has size items, the last has between 1 and size, and
\* the empty list yields no batch.
C30_ChunkedPartitionsInOrder ==
    ChunkedCalled =>
        LET items == call.args[1]
            size == call.args[2]
            batches == ret.val
            n == Len(batches)
        IN  /\ Concatenation(batches) = items
            /\ \A k \in 1..n : Len(batches[k]) >= 1
            /\ \A k \in 1..(n - 1) : Len(batches[k]) = size
            /\ n > 0 => Len(batches[n]) \in 1..size
            /\ items = <<>> => batches = <<>>

\* five items in batches of two: two full batches and a last one of one item
C30_TwoFullBatchesAndARest ==
    /\ ChunkedCalled
    /\ Len(call.args[1]) = 5 /\ call.args[2] = 2
    /\ Len(ret.val) = 3
    /\ Len(ret.val[3]) = 1
    /\ ret.val[1] # ret.val[2]

====
